---- MODULE Spec2Model ----
(***************************************************************************)
(* Verification model of the music player core of Meow_Bot:                *)
(*   MusicQueue    (src/module/music_player/core/queue.py)                 *)
(*   CacheManager  (src/module/music_player/core/cache.py)                 *)
(* A Song is represented by its id, the only field these classes inspect.  *)
(***************************************************************************)
EXTENDS Integers, Sequences, FiniteSets, TLC

\* ------------------------------------------------------------------------
\* Bounds of the model
\* ------------------------------------------------------------------------
NumIds == 3

MaxQueue == 3

MaxBatch == 2

\* CacheManager(window_behind, window_ahead): the constructor arguments
window_behind == 1

window_ahead == 2

\* prefetch tasks that can be unfinished at the same time
MaxPreload == 2

\* songs whose prefetch is followed through its download and conversion
NumDownloads == 2

\* paths outside the cache directory that put may be given
NumOutside == 2

\* distinct file contents
NumContents == 2

\* milliseconds between two readings of the clock
TickMs == 250

\* the clock runs over TickMs .. MaxTicks * TickMs
MaxTicks == 8

\* longest song, in seconds
MaxDuration == 2

\* most ticks that pass (or are set back) between two steps
MaxStep == 2

\* seconds that pass in one step of a download's clock
TickS == 90

\* longest time, in seconds, a download is followed in one await
MaxWait == 270

\* most words of an error text
MaxWords == 2

\* most words of a title
MaxTitle == 2

\* most lines of a playlist's output
MaxEntries == 2

\* `after` callbacks, and scheduled _handle_song_end tasks, outstanding at once
MaxPending == 1

\* while the player runs the clock runs over TickMs .. MaxPlayerTicks * TickMs
MaxPlayerTicks == 4

\* ------------------------------------------------------------------------
\* Values
\* ------------------------------------------------------------------------
Ids == 1..NumIds

\* Python None where a Song (id) is expected
NoSong == 0

\* asyncio.Lock not held by any task
Free == 0

\* two coroutines that issue mutations concurrently
Tasks == {1, 2}

Max(a, b) == IF a >= b THEN a ELSE b

Min(a, b) == IF a <= b THEN a ELSE b

\* Python's % for a positive divisor: the result has the sign of the divisor
PyMod(a, n) == ((a % n) + n) % n

\* All sequences over S of length lo..hi
SeqsOf(S, lo, hi) == UNION {[1..n -> S] : n \in lo..hi}

VARIABLES
  queue,          \* MusicQueue._queue, a sequence of song ids
  current_index,  \* MusicQueue._current_index (0-based, -1 when empty)
  loop,           \* MusicQueue._loop
  lock,           \* MusicQueue._lock: Free or the task holding it
  ret,            \* the most recent direct MusicQueue call: operation, argument, result
  m_pc,           \* per coroutine: position inside a locked mutation
  m_call,         \* per coroutine: the mutation being executed and its argument
  m_local,        \* per coroutine: locals of the mutation (pos, first_add)
  cache_files,    \* ids X for which cache_dir/X.opus exists
  explicit_files, \* ids whose file an explicit (non-prefetch) download produced
                  \* since the keep set was last recomputed
  keep_ids,       \* CacheManager._keep_ids
  preload_tasks,  \* CacheManager._preload_tasks: id -> task handle, 0 = no entry
  tasks,          \* the asyncio tasks running _preload_one, by handle
  cache_event,    \* the most recent CacheManager call or _preload_one step: its
                  \* arguments and the count it reports
  downloads,      \* per song: the _preload_one task running downloader.download
  dl_files,       \* per song: the raw yt-dlp output and the .opus file on disk
  subprocesses,   \* per song: the yt-dlp / ffmpeg process started for it
  waited,         \* per song: seconds its download call has spent in its await
  fs,             \* the files CacheManager.put sees: path -> content, 0 = no file
  put_event,      \* the most recent call of CacheManager.put
  state,          \* MusicPlayer.state, the PlaybackState
  now,            \* time.time(), in milliseconds
  state_ret,      \* the most recent PlaybackState call and its return value
  played,         \* milliseconds the song started last has been playing, pauses
                  \* excluded
  steady,         \* the clock was not set back since the last start()
  last_manual_operation_time, \* PlaybackState._last_manual_operation_time
  is_stopping,    \* MusicPlayer._is_stopping
  voice,          \* the song the voice client is playing, NoSong when none
  pending_after,  \* `after` callbacks the audio thread still has to make, by cause
  end_tasks,      \* _handle_song_end tasks scheduled on the loop, by cause
  co,             \* the cog coroutines: the manual handler and the song-end task
  player_event,   \* the most recent step of the player or the cog
  cog,            \* MusicPlayerCog: the connection fields, the reconnect loop and
                  \* what the session holds
  reconnect_event, \* the most recent step of the connection handlers
  tool_output,    \* what yt-dlp printed for the downloader call under study
  extract_result, \* the most recent downloader call on the tool output and what
                  \* it returned
  entries         \* extract_playlist: the output lines read so far and the records
                  \* kept for them

downloadVars == <<downloads, dl_files, subprocesses, waited>>

putVars == <<fs, put_event>>

stateVars == <<state, now, state_ret, played, steady>>

playerVars == <<last_manual_operation_time, is_stopping, voice, pending_after,
                end_tasks, co, player_event>>

sessionVars == <<cog, reconnect_event>>

extractVars == <<tool_output, extract_result, entries>>

\* the state outside MusicQueue and CacheManager
outerVars == <<downloadVars, putVars, stateVars, playerVars, sessionVars,
               extractVars>>

vars == <<queue, current_index, loop, lock, ret, m_pc, m_call, m_local,
          cache_files, explicit_files, keep_ids, preload_tasks, tasks, cache_event,
          outerVars>>

cacheVars == <<cache_files, explicit_files, keep_ids, preload_tasks, tasks, cache_event>>

queueVars == <<queue, current_index, loop, lock, ret>>

mutatorVars == <<m_pc, m_call, m_local>>

\* what the steps of a prefetch download leave unchanged
notDownload == <<queueVars, mutatorVars, cacheVars, putVars, stateVars, playerVars,
                 sessionVars, extractVars>>

\* what put leaves unchanged
notPut == <<queueVars, mutatorVars, cacheVars, downloadVars, stateVars, playerVars,
            sessionVars, extractVars>>

\* what PlaybackState and the clock leave unchanged
notState == <<queueVars, mutatorVars, cacheVars, downloadVars, putVars, playerVars,
              sessionVars, extractVars>>

\* what the player and the cog leave unchanged: the prefetch side of the
\* cache, the coroutines inside queue mutations, put's file system and the
\* records kept of direct MusicQueue and PlaybackState calls
notPlayer == <<mutatorVars, explicit_files, keep_ids, preload_tasks, tasks,
               cache_event, downloadVars, putVars, ret, state_ret, played, steady,
               sessionVars, extractVars>>

\* what the connection handlers leave unchanged
notSession == <<queueVars, mutatorVars, cacheVars, downloadVars, putVars, stateVars,
                playerVars, extractVars>>

\* what the downloader's handling of a tool output leaves unchanged
notExtract == <<queueVars, mutatorVars, cacheVars, downloadVars, putVars, stateVars,
                playerVars, sessionVars>>

\* ------------------------------------------------------------------------
\* MusicQueue: pure parts of the methods
\* ------------------------------------------------------------------------
\* MusicQueue.current_song
current_song(q, ci) == IF ci < 0 \/ ci >= Len(q) THEN NoSong ELSE q[ci + 1]

\* list.pop(i), 0-based
PopAt(q, i) == SubSeq(q, 1, i) \o SubSeq(q, i + 2, Len(q))

\* the index at which `for i, song in enumerate(self._queue)` first finds
\* song.id == song_id; -1 when the loop ends without a match
FindFirst(q, song_id) ==
  IF \E i \in 1..Len(q) : q[i] = song_id
  THEN (CHOOSE i \in 1..Len(q) : q[i] = song_id /\ \A j \in 1..(i - 1) : q[j] # song_id) - 1
  ELSE -1

\* add: the cursor after the append (q is the list after the append)
CursorAfterAdd(q, ci) == IF Len(q) = 1 THEN 0 ELSE ci

\* add_many: the cursor after the extend (q is the list after the extend)
CursorAfterAddMany(q, ci, first_add) == IF first_add /\ Len(q) > 0 THEN 0 ELSE ci

CursorAfterRemoveNoClamp(q, ci, i) ==
  IF Len(q) = 0 THEN -1
  ELSE IF i < ci THEN ci - 1
  ELSE ci

CursorAfterRemoveOffByOne(q, ci, i) ==
  IF Len(q) = 0 THEN -1
  ELSE IF i <= ci /\ ci > 0 THEN ci - 1
  ELSE IF ci >= Len(q) THEN Len(q) - 1
  ELSE ci

\* remove / remove_by_index: the cursor after pop(i) (q is the list after the pop)
CursorAfterRemove(q, ci, i) ==
  IF Len(q) = 0 THEN -1
  ELSE IF i < ci THEN ci - 1
  ELSE IF i = ci THEN (IF ci >= Len(q) THEN Len(q) - 1 ELSE ci)
  ELSE ci

NextResultAlwaysWraps(q, ci, lp) ==
  IF Len(q) = 0 THEN [idx |-> ci, val |-> NoSong]
  ELSE [idx |-> PyMod(ci + 1, Len(q)),
        val |-> current_song(q, PyMod(ci + 1, Len(q)))]

\* next(): the new cursor and the returned song
NextResult(q, ci, lp) ==
  IF Len(q) = 0 THEN [idx |-> ci, val |-> NoSong]
  ELSE IF lp
       THEN [idx |-> PyMod(ci + 1, Len(q)),
             val |-> current_song(q, PyMod(ci + 1, Len(q)))]
       ELSE IF ci + 1 >= Len(q)
            THEN [idx |-> ci, val |-> NoSong]
            ELSE [idx |-> ci + 1, val |-> current_song(q, ci + 1)]

PreviousResultNeverWraps(q, ci, lp) ==
  IF Len(q) = 0 \/ ci <= 0 THEN [idx |-> ci, val |-> NoSong]
  ELSE [idx |-> ci - 1, val |-> current_song(q, ci - 1)]

\* previous(): the new cursor and the returned song
PreviousResult(q, ci, lp) ==
  IF Len(q) = 0 THEN [idx |-> ci, val |-> NoSong]
  ELSE IF lp
       THEN [idx |-> PyMod(ci - 1, Len(q)),
             val |-> current_song(q, PyMod(ci - 1, Len(q)))]
       ELSE IF ci <= 0
            THEN [idx |-> ci, val |-> NoSong]
            ELSE [idx |-> ci - 1, val |-> current_song(q, ci - 1)]

JumpResultAcceptsLen(q, ci, index) ==
  IF index < 0 \/ index > Len(q) THEN [idx |-> ci, val |-> NoSong]
  ELSE [idx |-> index, val |-> current_song(q, index)]

\* jump_to(index): the new cursor and the returned song
JumpResult(q, ci, index) ==
  IF index < 0 \/ index >= Len(q) THEN [idx |-> ci, val |-> NoSong]
  ELSE [idx |-> index, val |-> current_song(q, index)]

\* has_next()
has_next(q, ci, lp) ==
  IF Len(q) = 0 THEN FALSE
  ELSE IF lp THEN Len(q) > 1
  ELSE ci + 1 < Len(q)

\* has_previous()
has_previous(q, ci, lp) ==
  IF Len(q) = 0 THEN FALSE
  ELSE IF lp THEN Len(q) > 1
  ELSE ci > 0

Called(o, a, v) == [op |-> o, arg |-> a, val |-> v]

\* ------------------------------------------------------------------------
\* MusicQueue: the methods as atomic operations.  A mutation takes the lock
\* (it must be free), runs its body, which contains no await, and releases
\* the lock before any other coroutine runs.
\* ------------------------------------------------------------------------
add(song) ==
  /\ lock = Free
  /\ Len(queue) < MaxQueue
  /\ queue' = Append(queue, song)
  /\ current_index' = CursorAfterAdd(queue', current_index)
  /\ ret' = Called("add", song, song)
  /\ UNCHANGED <<loop, lock, mutatorVars, cacheVars, outerVars>>

add_many(songs) ==
  /\ lock = Free
  /\ Len(queue) + Len(songs) <= MaxQueue
  /\ queue' = queue \o songs
  /\ current_index' = CursorAfterAddMany(queue', current_index, Len(queue) = 0)
  /\ ret' = Called("add_many", Len(songs), Len(songs))
  /\ UNCHANGED <<loop, lock, mutatorVars, cacheVars, outerVars>>

remove(song_id) ==
  /\ lock = Free
  /\ LET i == FindFirst(queue, song_id) IN
       IF i < 0
       THEN /\ ret' = Called("remove", song_id, NoSong)
            /\ UNCHANGED <<queue, current_index>>
       ELSE /\ queue' = PopAt(queue, i)
            /\ current_index' = CursorAfterRemove(queue', current_index, i)
            /\ ret' = Called("remove", song_id, queue[i + 1])
  /\ UNCHANGED <<loop, lock, mutatorVars, cacheVars, outerVars>>

remove_by_index(index) ==
  /\ lock = Free
  /\ LET pos == index - 1 IN
       IF pos < 0 \/ pos >= Len(queue)
       THEN /\ ret' = Called("remove_by_index", index, NoSong)
            /\ UNCHANGED <<queue, current_index>>
       ELSE /\ queue' = PopAt(queue, pos)
            /\ current_index' = CursorAfterRemove(queue', current_index, pos)
            /\ ret' = Called("remove_by_index", index, queue[pos + 1])
  /\ UNCHANGED <<loop, lock, mutatorVars, cacheVars, outerVars>>

clear ==
  /\ lock = Free
  /\ queue' = << >>
  /\ current_index' = -1
  /\ ret' = Called("clear", 0, Len(queue))
  /\ UNCHANGED <<loop, lock, mutatorVars, cacheVars, outerVars>>

next ==
  /\ current_index' = NextResult(queue, current_index, loop).idx
  /\ ret' = Called("next", 0, NextResult(queue, current_index, loop).val)
  /\ UNCHANGED <<queue, loop, lock, mutatorVars, cacheVars, outerVars>>

previous ==
  /\ current_index' = PreviousResult(queue, current_index, loop).idx
  /\ ret' = Called("previous", 0, PreviousResult(queue, current_index, loop).val)
  /\ UNCHANGED <<queue, loop, lock, mutatorVars, cacheVars, outerVars>>

jump_to(index) ==
  /\ current_index' = JumpResult(queue, current_index, index).idx
  /\ ret' = Called("jump_to", index, JumpResult(queue, current_index, index).val)
  /\ UNCHANGED <<queue, loop, lock, mutatorVars, cacheVars, outerVars>>

\* the loop property setter
set_loop(value) ==
  /\ loop' = value
  /\ ret' = Called("set_loop", 0, NoSong)
  /\ UNCHANGED <<queue, current_index, lock, mutatorVars, cacheVars, outerVars>>

\* ------------------------------------------------------------------------
\* CacheManager
\* ------------------------------------------------------------------------
Handles == 1..MaxPreload

\* a handle whose task is done (task.done()); its record is not kept
NoTask == [song |-> NoSong, st |-> "done", cancelled |-> FALSE]

Done(tk, h) == tk[h].st = "done"

Event(o, q, i, n) == [op |-> o, queue |-> q, index |-> i, count |-> n]

exists_never(files, song_id) == FALSE

\* CacheManager.exists / get on the cache directory
exists(files, song_id) == song_id \in files

KeepIdsShortEnd(q, c, behind, ahead) ==
  LET keep_start == Max(0, c - behind)
      keep_end == Min(Len(q), c + ahead)
  IN {q[i + 1] : i \in keep_start..(keep_end - 1)}

\* _update_keep_ids: the ids at range(keep_start, keep_end)
KeepIds(q, c, behind, ahead) ==
  LET keep_start == Max(0, c - behind)
      keep_end == Min(Len(q), c + ahead + 1)
  IN {q[i + 1] : i \in keep_start..(keep_end - 1)}

\* _cleanup_old: the *.opus files left after unlinking those not in keep
CleanupOld(files, keep) == {f \in files : f \in keep}

\* asyncio.create_task: the handle of the new task
NewHandle(tk) == CHOOSE h \in Handles : Done(tk, h) /\ \A g \in Handles : Done(tk, g) => h <= g

\* _preload_ahead: the loop over offset, from `offset` on; pt is
\* _preload_tasks and tk the tasks
RECURSIVE PreloadAhead(_, _, _, _, _, _)
PreloadAhead(q, c, offset, files, pt, tk) ==
  IF offset > window_ahead \/ c + offset >= Len(q)
  THEN [pt |-> pt, tk |-> tk]
  ELSE LET song == q[c + offset + 1] IN
         IF exists(files, song)
         THEN PreloadAhead(q, c, offset + 1, files, pt, tk)
         ELSE IF pt[song] # 0 /\ ~Done(tk, pt[song])
         THEN PreloadAhead(q, c, offset + 1, files, pt, tk)
         ELSE LET h == NewHandle(tk) IN
                PreloadAhead(q, c, offset + 1, files,
                             [pt EXCEPT ![song] = h],
                             [tk EXCEPT ![h] = [song |-> song, st |-> "new",
                                                cancelled |-> FALSE]])

\* the ids _preload_ahead creates a task for (keeps the tasks within MaxPreload)
ToPreload(q, c, files, pt, tk) ==
  {q[i + 1] : i \in (c + 1)..Min(Len(q) - 1, c + window_ahead)}
    \ {s \in Ids : exists(files, s) \/ (pt[s] # 0 /\ ~Done(tk, pt[s]))}

\* on_song_change(queue, current_index, downloader); it contains no await
\* that suspends, so it runs as one step of the event loop
on_song_change(q, c) ==
  /\ IF Len(q) = 0 \/ c < 0
     THEN /\ UNCHANGED <<cache_files, explicit_files, keep_ids, preload_tasks, tasks>>
          /\ cache_event' = Event("on_song_change", q, c, 0)
     ELSE /\ keep_ids' = KeepIds(q, c, window_behind, window_ahead)
          /\ cache_files' = CleanupOld(cache_files, keep_ids')
          /\ Cardinality(ToPreload(q, c, cache_files', preload_tasks, tasks))
               <= Cardinality({h \in Handles : Done(tasks, h)})
          /\ explicit_files' = {}
          /\ LET r == PreloadAhead(q, c, 1, cache_files', preload_tasks, tasks) IN
               /\ preload_tasks' = r.pt
               /\ tasks' = r.tk
          /\ cache_event' = Event("on_song_change", q, c,
                                  Cardinality(cache_files \ cache_files'))
  /\ UNCHANGED <<queueVars, mutatorVars, outerVars>>

\* _preload_one up to its first suspension inside downloader.download
preload_start(h) ==
  /\ tasks[h].st = "new"
  /\ ~tasks[h].cancelled
  /\ tasks' = [tasks EXCEPT ![h].st = "downloading"]
  /\ cache_event' = Event("preload_one", << >>, -1, 0)
  /\ UNCHANGED <<cache_files, explicit_files, keep_ids, preload_tasks>>
  /\ UNCHANGED <<queueVars, mutatorVars, outerVars>>

\* _preload_one from the return of downloader.download to its end: the
\* download produced the file (ok) or failed, then the finally clause
preload_finish(h, ok) ==
  /\ tasks[h].st = "downloading"
  /\ ~tasks[h].cancelled
  /\ cache_files' = IF ok THEN cache_files \cup {tasks[h].song} ELSE cache_files
  /\ preload_tasks' = [preload_tasks EXCEPT ![tasks[h].song] = 0]
  /\ tasks' = [tasks EXCEPT ![h] = NoTask]
  /\ cache_event' = Event("preload_one", << >>, -1, IF ok THEN 1 ELSE 0)
  /\ UNCHANGED <<explicit_files, keep_ids>>
  /\ UNCHANGED <<queueVars, mutatorVars, outerVars>>

\* a cancelled task runs again: CancelledError is raised where it was
\* suspended (the finally clause runs) or, if it never started, the task
\* ends without entering _preload_one
preload_cancelled(h) ==
  /\ tasks[h].st \in {"new", "downloading"}
  /\ tasks[h].cancelled
  /\ preload_tasks' = IF tasks[h].st = "downloading"
                      THEN [preload_tasks EXCEPT ![tasks[h].song] = 0]
                      ELSE preload_tasks
  /\ tasks' = [tasks EXCEPT ![h] = NoTask]
  /\ cache_event' = Event("preload_one", << >>, -1, 0)
  /\ UNCHANGED <<cache_files, explicit_files, keep_ids>>
  /\ UNCHANGED <<queueVars, mutatorVars, outerVars>>

\* the handles cancel_all_preloads calls task.cancel() on
ToCancel(pt, tk) == {h \in Handles : ~Done(tk, h) /\ \E s \in Ids : pt[s] = h}

\* the tasks after cancel_all_preloads
CancelAll(pt, tk) ==
  [h \in Handles |-> IF h \in ToCancel(pt, tk)
                     THEN [tk[h] EXCEPT !.cancelled = TRUE] ELSE tk[h]]

\* cancel_all_preloads(), as cleanup() calls it
cancel_all_preloads ==
  /\ tasks' = CancelAll(preload_tasks, tasks)
  /\ preload_tasks' = [s \in Ids |-> 0]
  /\ cache_event' = Event("cancel_all_preloads", << >>, -1,
                          Cardinality(ToCancel(preload_tasks, tasks)))
  /\ UNCHANGED <<cache_files, explicit_files, keep_ids>>
  /\ UNCHANGED <<queueVars, mutatorVars, outerVars>>

\* cleanup(): cancel_all_preloads() and nothing else; the files stay
cleanup ==
  /\ tasks' = CancelAll(preload_tasks, tasks)
  /\ preload_tasks' = [s \in Ids |-> 0]
  /\ cache_event' = Event("cleanup", << >>, -1, 0)
  /\ UNCHANGED <<cache_files, explicit_files, keep_ids>>
  /\ UNCHANGED <<queueVars, mutatorVars, outerVars>>

\* clear_all()
clear_all ==
  /\ tasks' = CancelAll(preload_tasks, tasks)
  /\ preload_tasks' = [s \in Ids |-> 0]
  /\ cache_files' = {}
  /\ explicit_files' = {}
  /\ keep_ids' = {}
  /\ cache_event' = Event("clear_all", << >>, -1, Cardinality(cache_files))
  /\ UNCHANGED <<queueVars, mutatorVars, outerVars>>

\* the download of a song that is about to be played and has no cache file
\* (MusicPlayerCog._play_song, MusicPlayer.play), outside any prefetch task
explicit_download(song_id) ==
  /\ ~exists(cache_files, song_id)
  /\ cache_files' = cache_files \cup {song_id}
  /\ explicit_files' = explicit_files \cup {song_id}
  /\ cache_event' = Event("explicit_download", << >>, -1, 1)
  /\ UNCHANGED <<keep_ids, preload_tasks, tasks>>
  /\ UNCHANGED <<queueVars, mutatorVars, outerVars>>

\* CacheManager.__init__ on an empty cache directory
InitCache ==
  /\ cache_files = {}
  /\ explicit_files = {}
  /\ keep_ids = {}
  /\ preload_tasks = [s \in Ids |-> 0]
  /\ tasks = [h \in Handles |-> NoTask]
  /\ cache_event = Event("init", << >>, -1, 0)

\* the (queue, current_index) pairs handed to on_song_change: playlists in
\* ascending id order, repeated songs included, with the cursor of a
\* MusicQueue (-1 exactly when the queue is empty)
QueueSnapshots ==
  {<<q, c>> \in SeqsOf(Ids, 0, MaxQueue) \X (-1..(MaxQueue - 1)) :
     /\ \A i \in 1..(Len(q) - 1) : q[i] <= q[i + 1]
     /\ IF Len(q) = 0 THEN c = -1 ELSE 0 <= c /\ c < Len(q)}

NextCache ==
  \/ \E qc \in QueueSnapshots : on_song_change(qc[1], qc[2])
  \/ \E h \in Handles : preload_start(h)
  \/ \E h \in Handles, ok \in BOOLEAN : preload_finish(h, ok)
  \/ \E h \in Handles : preload_cancelled(h)
  \/ cancel_all_preloads
  \/ clear_all
  \/ cleanup
  \/ \E song_id \in Ids : explicit_download(song_id)

\* ------------------------------------------------------------------------
\* A prefetch task at the granularity of its suspensions:
\* CacheManager._preload_one awaiting YTDLPDownloader.download, which runs
\* yt-dlp (writes the raw file <id>.<ext>) and then ffmpeg (writes <id>.opus)
\* ------------------------------------------------------------------------
DlSongs == 1..NumDownloads

\* timeout of extract_info, in seconds
ExtractTimeout == 30

\* timeout of download, in seconds
DownloadTimeout == 180

\* a download call: where it is suspended, whether its task has a
\* cancellation pending, whether it was given the song id, whether it found
\* <id>.opus, and the external tools it has started
NoDownload == [pc |-> "none", cancel |-> FALSE, with_id |-> FALSE, hit |-> FALSE,
               started |-> {}]

NoFiles == [raw |-> "none", opus |-> "none"]

Unfinished(d) == d.pc \in {"new", "extract", "ytdlp", "convert"}

\* the process runs; yt-dlp may have closed its output pipe before it exits
Running(p) == p \in {"ytdlp", "ytdlp_eof", "ffmpeg"}

\* what a process that keeps writing makes of its output file
Written(f) == IF f = "none" THEN "partial" ELSE "complete"

\* the call is suspended in an await that only the tool can end, or a timer
Awaiting(s) ==
  \/ downloads[s].pc = "extract"
  \/ downloads[s].pc \in {"ytdlp", "convert"} /\ Running(subprocesses[s])

\* the wait_for the call is suspended in gives up after this many seconds;
\* 0 when the await has no timeout
Timer(s) ==
  IF downloads[s].pc = "extract" THEN ExtractTimeout
  ELSE IF downloads[s].pc = "ytdlp" /\ subprocesses[s] = "ytdlp_eof" THEN DownloadTimeout
  ELSE 0

opus_exists_never(f) == FALSE

\* download: opus_path.exists()
opus_exists(f) == f.opus # "none"

\* _preload_ahead creates the task: no <id>.opus exists and no unfinished
\* task is recorded for the song
preload_create(s) ==
  /\ ~Unfinished(downloads[s])
  /\ dl_files[s].opus = "none"
  /\ ~Running(subprocesses[s])
  /\ downloads' = [downloads EXCEPT ![s] = [NoDownload EXCEPT !.pc = "new"]]
  /\ subprocesses' = [subprocesses EXCEPT ![s] = "none"]
  /\ waited' = [waited EXCEPT ![s] = 0]
  /\ UNCHANGED dl_files
  /\ UNCHANGED notDownload

\* download(song.url) from _play_song, or download(song.url, song.id) from
\* MusicPlayer.play, whose look into the cache came before the call
download_requested(s, with_id) ==
  /\ ~Unfinished(downloads[s])
  /\ ~Running(subprocesses[s])
  /\ downloads' = [downloads EXCEPT ![s] =
                     [NoDownload EXCEPT !.pc = "new", !.with_id = with_id]]
  /\ subprocesses' = [subprocesses EXCEPT ![s] = "none"]
  /\ waited' = [waited EXCEPT ![s] = 0]
  /\ UNCHANGED dl_files
  /\ UNCHANGED notDownload

\* the call starts.  With a song id it looks for <id>.opus first; either
\* way its first await is extract_info, which runs yt-dlp --dump-json
download_begin(s) ==
  /\ downloads[s].pc = "new"
  /\ ~downloads[s].cancel
  /\ downloads' = [downloads EXCEPT
                     ![s].pc = "extract",
                     ![s].hit = downloads[s].with_id /\ opus_exists(dl_files[s]),
                     ![s].started = {"extract"}]
  /\ waited' = [waited EXCEPT ![s] = 0]
  /\ UNCHANGED <<dl_files, subprocesses>>
  /\ UNCHANGED notDownload

\* extract_info returned (ok: with metadata; its own timeout ends it without).
\* A call that had found <id>.opus returns it.  Otherwise no metadata ends
\* the download; a call without id looks for <id>.opus now and returns it;
\* otherwise yt-dlp is started and its output awaited
download_extracted(s, ok) ==
  /\ downloads[s].pc = "extract"
  /\ ~downloads[s].cancel
  /\ IF downloads[s].hit
     THEN /\ downloads' = [downloads EXCEPT ![s].pc = "done"]
          /\ UNCHANGED subprocesses
     ELSE IF ~ok
     THEN /\ downloads' = [downloads EXCEPT ![s].pc = "failed"]
          /\ UNCHANGED subprocesses
     ELSE IF ~downloads[s].with_id /\ opus_exists(dl_files[s])
     THEN /\ downloads' = [downloads EXCEPT ![s].pc = "done", ![s].hit = TRUE]
          /\ UNCHANGED subprocesses
     ELSE /\ downloads' = [downloads EXCEPT ![s].pc = "ytdlp",
                                            ![s].started = @ \cup {"ytdlp"}]
          /\ subprocesses' = [subprocesses EXCEPT ![s] = "ytdlp"]
  /\ waited' = [waited EXCEPT ![s] = 0]
  /\ UNCHANGED dl_files
  /\ UNCHANGED notDownload

\* the yt-dlp or ffmpeg process of song s writes more of its output file;
\* it runs whether or not a task still waits for it
subprocess_write(s) ==
  /\ Running(subprocesses[s])
  /\ IF subprocesses[s] # "ffmpeg"
     THEN /\ dl_files[s].raw # "complete"
          /\ dl_files' = [dl_files EXCEPT ![s].raw = Written(dl_files[s].raw)]
     ELSE /\ dl_files[s].opus # "complete"
          /\ dl_files' = [dl_files EXCEPT ![s].opus = Written(dl_files[s].opus)]
  /\ UNCHANGED <<downloads, subprocesses, waited>>
  /\ UNCHANGED notDownload

\* yt-dlp closes its output pipe and keeps running: `async for line in
\* proc.stdout` ends and wait_for(proc.wait(), timeout) begins
subprocess_closes_stdout(s) ==
  /\ subprocesses[s] = "ytdlp"
  /\ subprocesses' = [subprocesses EXCEPT ![s] = "ytdlp_eof"]
  /\ waited' = [waited EXCEPT ![s] = 0]
  /\ UNCHANGED <<downloads, dl_files>>
  /\ UNCHANGED notDownload

\* the process exits: with status 0 once its output is complete, or with an
\* error, leaving what it wrote
subprocess_exit(s, ok) ==
  /\ Running(subprocesses[s])
  /\ ok <=> (IF subprocesses[s] # "ffmpeg" THEN dl_files[s].raw ELSE dl_files[s].opus)
              = "complete"
  /\ subprocesses' = [subprocesses EXCEPT ![s] =
                        IF ok THEN "exit_ok" ELSE "exit_error"]
  /\ UNCHANGED <<downloads, dl_files, waited>>
  /\ UNCHANGED notDownload

\* download after proc.wait(): a non-zero status ends the download,
\* otherwise _convert_to_opus starts ffmpeg on the raw file found
download_fetched(s) ==
  /\ downloads[s].pc = "ytdlp"
  /\ ~downloads[s].cancel
  /\ subprocesses[s] \in {"exit_ok", "exit_error"}
  /\ IF subprocesses[s] = "exit_error"
     THEN /\ downloads' = [downloads EXCEPT ![s].pc = "failed"]
          /\ subprocesses' = [subprocesses EXCEPT ![s] = "none"]
     ELSE /\ downloads' = [downloads EXCEPT ![s].pc = "convert",
                                            ![s].started = @ \cup {"ffmpeg"}]
          /\ subprocesses' = [subprocesses EXCEPT ![s] = "ffmpeg"]
  /\ waited' = [waited EXCEPT ![s] = 0]
  /\ UNCHANGED dl_files
  /\ UNCHANGED notDownload

\* wait_for(proc.wait(), timeout) raises TimeoutError: download returns
\* without a path; the process is left running
download_timeout(s) ==
  /\ downloads[s].pc = "ytdlp"
  /\ ~downloads[s].cancel
  /\ Timer(s) > 0
  /\ waited[s] >= Timer(s)
  /\ downloads' = [downloads EXCEPT ![s].pc = "failed"]
  /\ waited' = [waited EXCEPT ![s] = 0]
  /\ UNCHANGED <<dl_files, subprocesses>>
  /\ UNCHANGED notDownload

\* _convert_to_opus after proc.communicate(): the raw file is deleted on
\* either status; then download returns
download_converted(s) ==
  /\ downloads[s].pc = "convert"
  /\ ~downloads[s].cancel
  /\ subprocesses[s] \in {"exit_ok", "exit_error"}
  /\ downloads' = [downloads EXCEPT ![s].pc =
                     IF subprocesses[s] = "exit_ok" THEN "done" ELSE "failed"]
  /\ dl_files' = [dl_files EXCEPT ![s].raw = "none"]
  /\ subprocesses' = [subprocesses EXCEPT ![s] = "none"]
  /\ waited' = [waited EXCEPT ![s] = 0]
  /\ UNCHANGED notDownload

\* TickS seconds pass for every call suspended in an await, but a pending
\* wait_for is not overrun: its timer fires when its timeout is reached
seconds_pass ==
  /\ \E s \in DlSongs : Awaiting(s)
  /\ \A s \in DlSongs :
       Awaiting(s) => waited[s] < (IF Timer(s) > 0 THEN Timer(s) ELSE MaxWait)
  /\ waited' = [s \in DlSongs |->
                  IF ~Awaiting(s) THEN waited[s]
                  ELSE IF Timer(s) > 0 THEN Min(waited[s] + TickS, Timer(s))
                  ELSE Min(waited[s] + TickS, MaxWait)]
  /\ UNCHANGED <<downloads, dl_files, subprocesses>>
  /\ UNCHANGED notDownload

\* task.cancel() on the tasks in S: cancel_all_preloads (cleanup, clear_all)
\* cancels every unfinished task it has recorded
preload_cancel(S) ==
  /\ S # {}
  /\ \A s \in S : Unfinished(downloads[s]) /\ ~downloads[s].cancel
  /\ downloads' = [s \in DlSongs |->
                     IF s \in S THEN [downloads[s] EXCEPT !.cancel = TRUE]
                     ELSE downloads[s]]
  /\ UNCHANGED <<dl_files, subprocesses, waited>>
  /\ UNCHANGED notDownload

\* the cancellation takes effect: CancelledError is raised at the await the
\* task is suspended in.  download catches Exception only and _preload_one
\* re-raises, so no file is deleted and the process is neither killed nor
\* awaited
download_cancelled(s) ==
  /\ Unfinished(downloads[s])
  /\ downloads[s].cancel
  /\ downloads' = [downloads EXCEPT ![s].pc = "cancelled", ![s].cancel = FALSE]
  /\ waited' = [waited EXCEPT ![s] = 0]
  /\ UNCHANGED <<dl_files, subprocesses>>
  /\ UNCHANGED notDownload

\* an empty cache directory and no prefetch
InitDownload ==
  /\ downloads = [s \in DlSongs |-> NoDownload]
  /\ dl_files = [s \in DlSongs |-> NoFiles]
  /\ subprocesses = [s \in DlSongs |-> "none"]
  /\ waited = [s \in DlSongs |-> 0]

NextDownload ==
  \/ \E s \in DlSongs : preload_create(s)
  \/ \E s \in DlSongs, with_id \in BOOLEAN : download_requested(s, with_id)
  \/ \E s \in DlSongs : download_begin(s)
  \/ \E s \in DlSongs, ok \in BOOLEAN : download_extracted(s, ok)
  \/ \E s \in DlSongs : subprocess_write(s)
  \/ \E s \in DlSongs : subprocess_closes_stdout(s)
  \/ \E s \in DlSongs, ok \in BOOLEAN : subprocess_exit(s, ok)
  \/ \E s \in DlSongs : download_fetched(s)
  \/ \E s \in DlSongs : download_timeout(s)
  \/ \E s \in DlSongs : download_converted(s)
  \/ seconds_pass
  \/ \E S \in SUBSET DlSongs : preload_cancel(S)
  \/ \E s \in DlSongs : download_cancelled(s)

\* ------------------------------------------------------------------------
\* CacheManager.put on a file system.  A path is a number: path s in Ids is
\* cache_dir/<s>.opus, the paths above NumIds lie elsewhere.  fs maps a
\* path to the content of its file, 0 when no file exists there.
\* ------------------------------------------------------------------------
Paths == 1..(NumIds + NumOutside)

Contents == 1..NumContents

\* CacheManager.get_path(song_id)
get_path(song_id) == song_id

PutReplaces(f, song_id, file_path, rename_ok) ==
  LET target == get_path(song_id)
      source == file_path
  IN IF source = target THEN f
     ELSE IF f[source] # 0 /\ rename_ok
     THEN [f EXCEPT ![target] = f[source], ![source] = 0]
     ELSE f

\* put(song_id, file_path): the file system it leaves; rename_ok tells
\* whether source.rename(target) succeeds or raises
Put(f, song_id, file_path, rename_ok) ==
  LET target == get_path(song_id)
      source == file_path
  IN IF source = target THEN f
     ELSE IF f[target] # 0 THEN f
     ELSE IF f[source] # 0 /\ rename_ok
     THEN [f EXCEPT ![target] = f[source], ![source] = 0]
     ELSE f

\* whether put reaches source.rename(target)
PutRenames(f, song_id, file_path) ==
  /\ file_path # get_path(song_id)
  /\ f[get_path(song_id)] = 0
  /\ f[file_path] # 0

NoPut == [op |-> "none", id |-> NoSong, path |-> 0, failed |-> FALSE, again |-> FALSE]

\* a call of put; put_event records the call, whether its rename raised
\* and whether it repeats the call before it
put(song_id, file_path, rename_ok) ==
  /\ fs' = Put(fs, song_id, file_path, rename_ok)
  /\ put_event' = [op |-> "put", id |-> song_id, path |-> file_path,
                   failed |-> PutRenames(fs, song_id, file_path) /\ ~rename_ok,
                   again |-> /\ put_event.op = "put"
                             /\ put_event.id = song_id
                             /\ put_event.path = file_path]
  /\ UNCHANGED notPut

\* any content of the cache directory and of the paths outside it
InitPut ==
  /\ fs \in [Paths -> 0..NumContents]
  /\ put_event = NoPut

\* the frame of the other specifications: an empty file system
InitNoPut ==
  /\ fs = [p \in Paths |-> 0]
  /\ put_event = NoPut

NextPut ==
  \E song_id \in Ids, file_path \in Paths, rename_ok \in BOOLEAN :
    put(song_id, file_path, rename_ok)

\* ------------------------------------------------------------------------
\* PlaybackState (src/module/music_player/core/state.py).  Timestamps are
\* time.time() in milliseconds; the clock advances in steps of TickMs and,
\* being the wall clock, may also be set back.
\* ------------------------------------------------------------------------
Clock == {k * TickMs : k \in 1..MaxTicks}

\* int(x) for x seconds given in milliseconds: truncation towards zero
IntSeconds(ms) == IF ms >= 0 THEN ms \div 1000 ELSE -((-ms) \div 1000)

\* PlaybackState(): the dataclass defaults
NewState ==
  [is_playing |-> FALSE, is_paused |-> FALSE, start_time |-> 0, pause_start |-> 0,
   total_paused |-> 0, duration |-> 0, current_song_id |-> NoSong]

StateStartKeepsPaused(s, duration, song_id, t) ==
  [s EXCEPT !.is_playing = TRUE, !.is_paused = FALSE, !.start_time = t,
            !.duration = duration, !.current_song_id = song_id]

\* start(duration, song_id) at time t
StateStart(s, duration, song_id, t) ==
  [s EXCEPT !.is_playing = TRUE, !.is_paused = FALSE, !.start_time = t,
            !.total_paused = 0, !.duration = duration, !.current_song_id = song_id]

\* the condition under which pause() acts
CanPause(s) == s.is_playing /\ ~s.is_paused

StatePauseAlways(s, t) == [s EXCEPT !.is_paused = TRUE, !.pause_start = t]

\* pause() at time t
StatePause(s, t) ==
  IF CanPause(s) THEN [s EXCEPT !.is_paused = TRUE, !.pause_start = t] ELSE s

StateResumeForgetsPause(s, t) ==
  IF s.is_paused THEN [s EXCEPT !.is_paused = FALSE] ELSE s

\* resume() at time t
StateResume(s, t) ==
  IF s.is_paused
  THEN [s EXCEPT !.is_paused = FALSE, !.total_paused = @ + (t - s.pause_start)]
  ELSE s

\* stop()
StateStop(s) ==
  [s EXCEPT !.is_playing = FALSE, !.is_paused = FALSE, !.start_time = 0,
            !.pause_start = 0, !.total_paused = 0, !.current_song_id = NoSong]

\* reset()
StateReset(s) == [StateStop(s) EXCEPT !.duration = 0]

current_position_unclamped(s, t) ==
  IF ~s.is_playing THEN 0
  ELSE IF s.is_paused
  THEN IntSeconds(s.pause_start - s.start_time - s.total_paused)
  ELSE IntSeconds(t - s.start_time - s.total_paused)

\* the property current_position, read at time t
current_position(s, t) ==
  IF ~s.is_playing THEN 0
  ELSE LET elapsed == IF s.is_paused
                      THEN s.pause_start - s.start_time - s.total_paused
                      ELSE t - s.start_time - s.total_paused
       IN Max(0, Min(IntSeconds(elapsed), s.duration))

StateCalled(o, v) == [op |-> o, val |-> v]

start(duration, song_id) ==
  /\ state' = StateStart(state, duration, song_id, now)
  /\ state_ret' = StateCalled("start", TRUE)
  /\ played' = 0
  /\ steady' = TRUE
  /\ UNCHANGED now
  /\ UNCHANGED notState

pause ==
  /\ state' = StatePause(state, now)
  /\ state_ret' = StateCalled("pause", CanPause(state))
  /\ UNCHANGED <<now, played, steady>>
  /\ UNCHANGED notState

resume ==
  /\ state' = StateResume(state, now)
  /\ state_ret' = StateCalled("resume", state.is_paused)
  /\ UNCHANGED <<now, played, steady>>
  /\ UNCHANGED notState

stop ==
  /\ state' = StateStop(state)
  /\ state_ret' = StateCalled("stop", TRUE)
  /\ UNCHANGED <<now, played, steady>>
  /\ UNCHANGED notState

reset ==
  /\ state' = StateReset(state)
  /\ state_ret' = StateCalled("reset", TRUE)
  /\ UNCHANGED <<now, played, steady>>
  /\ UNCHANGED notState

\* d ticks of time pass; played counts the time a started song was playing
\* and not paused
tick(d) ==
  /\ now + d * TickMs <= MaxTicks * TickMs
  /\ now' = now + d * TickMs
  /\ played' = IF state.is_playing /\ ~state.is_paused
               THEN played + d * TickMs ELSE played
  /\ state_ret' = StateCalled("tick", TRUE)
  /\ UNCHANGED <<state, steady>>
  /\ UNCHANGED notState

\* the wall clock is set back by d ticks; no time passes (at most once per
\* start(), which keeps the timestamps bounded)
clock_set_back(d) ==
  /\ steady
  /\ now - d * TickMs >= TickMs
  /\ now' = now - d * TickMs
  /\ steady' = FALSE
  /\ state_ret' = StateCalled("clock_set_back", TRUE)
  /\ UNCHANGED <<state, played>>
  /\ UNCHANGED notState

InitState ==
  /\ state = NewState
  /\ now = TickMs
  /\ state_ret = StateCalled("init", TRUE)
  /\ played = 0
  /\ steady = TRUE

NextState ==
  \/ \E duration \in 0..MaxDuration, song_id \in {NoSong, 1} : start(duration, song_id)
  \/ pause
  \/ resume
  \/ stop
  \/ reset
  \/ \E d \in 1..MaxStep : tick(d)
  \/ \E d \in 1..MaxStep : clock_set_back(d)

\* ------------------------------------------------------------------------
\* MusicPlayer and MusicPlayerCog: manual next / previous / jump, the
\* completion callback of the voice client, and _play_song with its
\* download.  The voice client calls `after` from its audio thread; the
\* handlers run on the event loop, one step from suspension to suspension.
\* ------------------------------------------------------------------------
\* seconds during which _on_song_end ignores a completion after a manual
\* operation, in milliseconds
MANUAL_OPERATION_DEBOUNCE == 500

Coroutines == {"manual", "song_end"}

IdleCo == [pc |-> "idle", kind |-> "none", song |-> NoSong]

PlayerEvent(o, c, s, a) == [op |-> o, cause |-> c, song |-> s, attempt |-> a]

DebouncedNever(last, t) == FALSE

\* _on_song_end: the test that makes it return without advancing
Debounced(last, t) == last # 0 /\ t - last < MANUAL_OPERATION_DEBOUNCE

\* voice_client.is_playing(): a source is set and it is not paused
Audible(v, s) == v # NoSong /\ ~s.is_paused

PlaySongNothing(c, song, s0, v0, p0, has_file) ==
  /\ co' = [co EXCEPT ![c] = IdleCo]
  /\ state' = s0 /\ voice' = v0 /\ pending_after' = p0

\* _play_song(song) of coroutine c, entered with PlaybackState s0, the voice
\* client playing v0 and the callbacks p0 still to come: nothing for no
\* song; with a cache file player.play(song) at once (which stops a source
\* still playing, starts the new one and calls state.start); otherwise the
\* coroutine is suspended in downloader.download
PlaySong(c, song, s0, v0, p0, has_file) ==
  IF song = NoSong
  THEN /\ co' = [co EXCEPT ![c] = IdleCo]
       /\ state' = s0 /\ voice' = v0 /\ pending_after' = p0
  ELSE IF has_file
  THEN /\ co' = [co EXCEPT ![c] = IdleCo]
       /\ voice' = song
       /\ pending_after' = IF Audible(v0, s0) THEN Append(p0, "replaced") ELSE p0
       /\ state' = StateStart(s0, MaxDuration, song, now)
  ELSE /\ co' = [co EXCEPT ![c] = [pc |-> "downloading", kind |-> "none", song |-> song]]
       /\ state' = s0 /\ voice' = v0 /\ pending_after' = p0

\* _handle_next / _handle_previous / jump_to_song up to the middle of
\* player.stop(): jump_to_song first moves the cursor and gives up on an
\* invalid index; then _is_stopping is set, the voice client is stopped if it
\* plays (its `after` callback will follow) and PlaybackState is stopped
manual_begin(kind, index) ==
  /\ ~is_stopping
  /\ co["manual"].pc = "idle"
  /\ Len(pending_after) < MaxPending
  /\ LET j == JumpResult(queue, current_index, index) IN
       IF kind = "jump" /\ j.val = NoSong
       THEN /\ player_event' = PlayerEvent("jump_refused", "", NoSong, NoSong)
            /\ UNCHANGED <<current_index, is_stopping, voice, pending_after, co, state>>
       ELSE /\ current_index' = IF kind = "jump" THEN j.idx ELSE current_index
            /\ is_stopping' = TRUE
            /\ voice' = NoSong
            /\ pending_after' = IF voice # NoSong THEN Append(pending_after, "stop")
                                ELSE pending_after
            /\ state' = StateStop(state)
            /\ co' = [co EXCEPT !["manual"] =
                        [pc |-> "stopping", kind |-> kind,
                         song |-> IF kind = "jump" THEN j.val ELSE NoSong]]
            /\ player_event' = PlayerEvent("stop", "", NoSong, NoSong)
  /\ UNCHANGED <<queue, loop, lock, now, last_manual_operation_time, end_tasks,
                 cache_files>>
  /\ UNCHANGED notPlayer

\* the rest of the handler: player.stop() clears _is_stopping,
\* mark_manual_operation(), queue.next() / previous(), _play_song
manual_continue ==
  /\ co["manual"].pc = "stopping"
  /\ is_stopping' = FALSE
  /\ last_manual_operation_time' = now
  /\ LET kind == co["manual"].kind
         r == CASE kind = "next" -> NextResult(queue, current_index, loop)
                [] kind = "previous" -> PreviousResult(queue, current_index, loop)
                [] OTHER -> [idx |-> current_index, val |-> co["manual"].song]
     IN /\ current_index' = r.idx
        /\ PlaySong("manual", r.val, state, voice, pending_after,
                    exists(cache_files, r.val))
        /\ player_event' = PlayerEvent("manual", kind, NoSong, r.val)
  /\ UNCHANGED <<queue, loop, lock, now, end_tasks, cache_files>>
  /\ UNCHANGED notPlayer

\* downloader.download returns to _play_song.  With a file: cache.put and
\* player.play(song).  Without: SongUnavailableError, so queue.remove(song.id)
\* and _play_next_song, that is queue.next() and _play_song of its result
download_done(c, ok) ==
  /\ ~is_stopping
  /\ co[c].pc = "downloading"
  /\ Len(pending_after) < MaxPending
  /\ LET song == co[c].song
         pos == FindFirst(queue, song)
         q1 == IF pos >= 0 THEN PopAt(queue, pos) ELSE queue
         ci1 == IF pos >= 0 THEN CursorAfterRemove(q1, current_index, pos)
                ELSE current_index
         r == NextResult(q1, ci1, loop)
     IN IF ok
        THEN /\ cache_files' = cache_files \cup {song}
             /\ PlaySong(c, song, state, voice, pending_after, TRUE)
             /\ player_event' = PlayerEvent("play", "", song, song)
             /\ UNCHANGED <<queue, current_index>>
        ELSE /\ queue' = q1
             /\ current_index' = r.idx
             /\ PlaySong(c, r.val, state, voice, pending_after,
                         exists(cache_files, r.val))
             /\ player_event' = PlayerEvent("drop", "", song, r.val)
             /\ UNCHANGED cache_files
  /\ UNCHANGED <<loop, lock, now, is_stopping, last_manual_operation_time, end_tasks>>
  /\ UNCHANGED notPlayer

\* the source played by the voice client reaches its end
song_ends ==
  /\ voice # NoSong
  /\ Len(pending_after) < MaxPending
  /\ voice' = NoSong
  /\ pending_after' = Append(pending_after, "natural")
  /\ player_event' = PlayerEvent("song_ends", "natural", voice, NoSong)
  /\ UNCHANGED <<queue, current_index, loop, lock, state, now, is_stopping,
                 last_manual_operation_time, end_tasks, co, cache_files>>
  /\ UNCHANGED notPlayer

\* _on_playback_finished, called by the audio thread: nothing while
\* _is_stopping is set, otherwise _handle_song_end is scheduled on the loop
on_playback_finished ==
  /\ pending_after # << >>
  /\ Len(end_tasks) < MaxPending
  /\ pending_after' = Tail(pending_after)
  /\ end_tasks' = IF is_stopping THEN end_tasks
                  ELSE Append(end_tasks, Head(pending_after))
  /\ player_event' = PlayerEvent("on_playback_finished", Head(pending_after),
                                 NoSong, NoSong)
  /\ UNCHANGED <<queue, current_index, loop, lock, state, now, is_stopping,
                 last_manual_operation_time, voice, co, cache_files>>
  /\ UNCHANGED notPlayer

\* _handle_song_end and the cog's _on_song_end: state.stop(), nothing more
\* within the debounce window of a manual operation, otherwise
\* _play_next_song
handle_song_end ==
  /\ ~is_stopping
  /\ end_tasks # << >>
  /\ co["song_end"].pc = "idle"
  /\ Len(pending_after) < MaxPending
  /\ end_tasks' = Tail(end_tasks)
  /\ IF Debounced(last_manual_operation_time, now)
     THEN /\ state' = StateStop(state)
          /\ player_event' = PlayerEvent("ignored", Head(end_tasks), NoSong, NoSong)
          /\ UNCHANGED <<current_index, voice, pending_after, co>>
     ELSE LET r == NextResult(queue, current_index, loop) IN
            /\ current_index' = r.idx
            /\ PlaySong("song_end", r.val, StateStop(state), voice, pending_after,
                        exists(cache_files, r.val))
            /\ player_event' = PlayerEvent("advance", Head(end_tasks), NoSong, r.val)
  /\ UNCHANGED <<queue, loop, lock, now, is_stopping, last_manual_operation_time,
                 cache_files>>
  /\ UNCHANGED notPlayer

\* d ticks of time pass while the player runs
time_passes(d) ==
  /\ now + d * TickMs <= MaxPlayerTicks * TickMs
  /\ now' = now + d * TickMs
  /\ player_event' = PlayerEvent("time_passes", "", NoSong, NoSong)
  /\ UNCHANGED <<queue, current_index, loop, lock, state, is_stopping,
                 last_manual_operation_time, voice, pending_after, end_tasks, co,
                 cache_files>>
  /\ UNCHANGED notPlayer

\* ------------------------------------------------------------------------
\* MusicPlayer.jump_to / remove_song and the cog's add and remove commands,
\* each taken as one step from the command to its return (or to its
\* suspension in _play_song's download).  The completion callbacks the
\* commands cause stay pending with the audio thread.
\* ------------------------------------------------------------------------
\* what the commands leave unchanged besides the flags and the clock
notCommands == <<mutatorVars, explicit_files, keep_ids, preload_tasks, tasks,
                 cache_event, downloadVars, putVars, state_ret, played, steady,
                 sessionVars, extractVars>>

\* MusicPlayer.is_playing
IsPlaying(s) == s.is_playing /\ ~s.is_paused

\* MusicPlayer.play() for the song at cursor ci: with the file in the cache,
\* or once downloader.download has produced it (path_ok), a source still
\* playing is stopped, the song is started and state.start is called;
\* without a file nothing is played
PlayerPlay(ci, path_ok) ==
  LET song == current_song(queue, ci) IN
    IF song # NoSong /\ (exists(cache_files, song) \/ path_ok)
    THEN /\ voice' = song
         /\ pending_after' = IF Audible(voice, state)
                             THEN Append(pending_after, "replaced")
                             ELSE pending_after
         /\ state' = StateStart(state, MaxDuration, song, now)
         /\ cache_files' = cache_files \cup {song}
    ELSE UNCHANGED <<voice, pending_after, state, cache_files>>

\* MusicPlayer.jump_to(index): queue.jump_to(index) and, if it returned a
\* song, play()
player_jump_to(index, path_ok) ==
  /\ Len(pending_after) < MaxPending
  /\ LET j == JumpResult(queue, current_index, index) IN
       /\ current_index' = j.idx
       /\ IF j.val = NoSong
          THEN /\ UNCHANGED <<voice, pending_after, state, cache_files>>
               /\ ret' = Called("player_jump_to", index, NoSong)
          ELSE /\ PlayerPlay(j.idx, path_ok)
               /\ ret' = Called("player_jump_to", index,
                                IF exists(cache_files, j.val) \/ path_ok
                                THEN j.val ELSE NoSong)
  /\ player_event' = PlayerEvent("command", "", NoSong, NoSong)
  /\ UNCHANGED <<queue, loop, lock, now, is_stopping, last_manual_operation_time,
                 end_tasks, co>>
  /\ UNCHANGED notCommands

\* MusicPlayer.remove_song(index): queue.remove(index).  remove compares
\* song.id, a str, with the int it was given: no entry is equal to it
player_remove_song(index) ==
  /\ lock = Free
  /\ LET i == FindFirst(queue, NoSong) IN
       IF i < 0
       THEN /\ ret' = Called("player_remove_song", index, NoSong)
            /\ UNCHANGED <<queue, current_index>>
       ELSE /\ queue' = PopAt(queue, i)
            /\ current_index' = CursorAfterRemove(queue', current_index, i)
            /\ ret' = Called("player_remove_song", index, queue[i + 1])
  /\ player_event' = PlayerEvent("command", "", NoSong, NoSong)
  /\ UNCHANGED <<loop, lock, now, state, voice, pending_after, cache_files,
                 is_stopping, last_manual_operation_time, end_tasks, co>>
  /\ UNCHANGED notCommands

\* the cog's remove command: the song at the 1-based index is looked up in a
\* copy of the queue and queue.remove is called with its id
cog_remove_song(index) ==
  /\ lock = Free
  /\ LET target_index == index - 1 IN
       IF target_index < 0 \/ target_index >= Len(queue)
       THEN /\ ret' = Called("cog_remove_song", index, NoSong)
            /\ UNCHANGED <<queue, current_index>>
       ELSE LET song == queue[target_index + 1]
                i == FindFirst(queue, song)
            IN /\ queue' = PopAt(queue, i)
               /\ current_index' = CursorAfterRemove(queue', current_index, i)
               /\ ret' = Called("cog_remove_song", index, song)
  /\ player_event' = PlayerEvent("command", "", NoSong, NoSong)
  /\ UNCHANGED <<loop, lock, now, state, voice, pending_after, cache_files,
                 is_stopping, last_manual_operation_time, end_tasks, co>>
  /\ UNCHANGED notCommands

\* _handle_single_song_add for a url whose extract_info gave the song (nothing
\* happens without metadata): queue.add, and if the player is not playing
\* the cursor is put on the new song and _play_song is called
cog_add_single(song, info_ok) ==
  /\ lock = Free
  /\ Len(queue) < MaxQueue
  /\ Len(pending_after) < MaxPending
  /\ IF ~info_ok
     THEN /\ ret' = Called("add_single", NoSong, NoSong)
          /\ UNCHANGED <<queue, current_index, state, voice, pending_after, co>>
     ELSE /\ queue' = Append(queue, song)
          /\ ret' = Called("add_single", song, song)
          /\ IF IsPlaying(state)
             THEN /\ current_index' = CursorAfterAdd(queue', current_index)
                  /\ UNCHANGED <<state, voice, pending_after, co>>
             ELSE /\ co["manual"].pc = "idle"
                  /\ current_index' = Len(queue') - 1
                  /\ PlaySong("manual", song, state, voice, pending_after,
                              exists(cache_files, song))
  /\ player_event' = PlayerEvent("command", "", NoSong, NoSong)
  /\ UNCHANGED <<loop, lock, now, cache_files, is_stopping,
                 last_manual_operation_time, end_tasks>>
  /\ UNCHANGED notCommands

\* _handle_playlist_add for a url whose extract_playlist gave the songs
\* (nothing happens for none): queue.add for each, and if the queue was empty
\* or the player was not playing the cursor is put on the first new song and
\* _play_song is called
cog_add_playlist(songs) ==
  /\ lock = Free
  /\ Len(queue) + Len(songs) <= MaxQueue
  /\ Len(pending_after) < MaxPending
  /\ IF songs = << >>
     THEN /\ ret' = Called("add_playlist", 0, NoSong)
          /\ UNCHANGED <<queue, current_index, state, voice, pending_after, co>>
     ELSE /\ queue' = queue \o songs
          /\ ret' = Called("add_playlist", Len(songs), songs[1])
          /\ IF ~(Len(queue) = 0 \/ ~IsPlaying(state))
             THEN /\ current_index' = current_index
                  /\ UNCHANGED <<state, voice, pending_after, co>>
             ELSE /\ co["manual"].pc = "idle"
                  /\ current_index' = Len(queue') - Len(songs)
                  /\ PlaySong("manual", songs[1], state, voice, pending_after,
                              exists(cache_files, songs[1]))
  /\ player_event' = PlayerEvent("command", "", NoSong, NoSong)
  /\ UNCHANGED <<loop, lock, now, cache_files, is_stopping,
                 last_manual_operation_time, end_tasks>>
  /\ UNCHANGED notCommands

NextCommands ==
  \/ \E index \in 0..(MaxQueue + 1), path_ok \in BOOLEAN : player_jump_to(index, path_ok)
  \/ \E index \in 0..(MaxQueue + 1) : player_remove_song(index)
  \/ \E index \in 0..(MaxQueue + 1) : cog_remove_song(index)
  \/ \E song \in Ids, info_ok \in BOOLEAN : cog_add_single(song, info_ok)
  \/ \E songs \in SeqsOf(Ids, 0, MaxBatch) : cog_add_playlist(songs)
  \/ \E c \in Coroutines, ok \in BOOLEAN : download_done(c, ok)

\* ------------------------------------------------------------------------
\* YTDLPDownloader on the output of yt-dlp.  A text is a sequence of words;
\* a word is one of the phrases the tables look for (or a filler) in lower
\* or upper case.  "x in text" is: x is one of the words.
\* ------------------------------------------------------------------------
ERROR_PATTERNS ==
  << [reason |-> "age_restricted",
      patterns |-> {"sign in to confirm your age", "age-restricted",
                    "inappropriate for some users"}],
     [reason |-> "copyright",
      patterns |-> {"copyright grounds", "blocked it", "content owner",
                    "has blocked"}],
     [reason |-> "region_blocked",
      patterns |-> {"not available in your country"}],
     [reason |-> "private",
      patterns |-> {"private video", "sign in if you've been granted access"}],
     [reason |-> "unavailable",
      patterns |-> {"video unavailable", "this video is unavailable",
                    "no longer available", "has been removed",
                    "account has been terminated"}] >>

INVALID_TITLE_PATTERNS ==
  {"deleted video", "private video", "video unavailable", "track not found",
   "private track", "removed track", "track unavailable", "not available",
   "not found", "removed by artist", "content not available", "no longer exists"}

\* "unknown title", "未知標題", "untitled"
PlaceholderTitles == {"unknown title", "unknown title (zh)", "untitled"}

AllPatterns == UNION {ERROR_PATTERNS[k].patterns : k \in 1..Len(ERROR_PATTERNS)}

\* the words of an error text
ErrorWords == [phrase : AllPatterns \cup {"error"}, upper : BOOLEAN]

ErrorTexts == SeqsOf(ErrorWords, 0, MaxWords)

\* the words of a title
TitleWords == [phrase : {"deleted video", "untitled", "song"}, upper : BOOLEAN]

\* data.get("title") when the key is missing
NoTitle == << [phrase |-> "(missing)", upper |-> FALSE] >>

Titles == SeqsOf(TitleWords, 0, MaxTitle) \cup {NoTitle}

\* data.get("duration"): missing, a number (in tenths of a second), a string
\* that is no number, or nan
NoDuration == [kind |-> "none", tenths |-> 0]

Durations ==
  {NoDuration} \cup [kind : {"number"}, tenths : {-10, 0, 5, 20, 25}]
  \cup {[kind |-> "text", tenths |-> 0], [kind |-> "nan", tenths |-> 0]}

\* one JSON object printed by yt-dlp
VideoData == [title : Titles, duration : Durations]

\* str.lower()
lower(text) == [i \in DOMAIN text |-> [text[i] EXCEPT !.upper = FALSE]]

\* pattern in text, for a lower-case pattern
Contains(text, pattern) ==
  \E i \in DOMAIN text : text[i] = [phrase |-> pattern, upper |-> FALSE]

detect_error_type_cased(error_msg) ==
  LET hits == {k \in 1..Len(ERROR_PATTERNS) :
                 \E p \in ERROR_PATTERNS[k].patterns : Contains(error_msg, p)}
  IN IF hits = {} THEN "unknown"
     ELSE ERROR_PATTERNS[CHOOSE k \in hits : \A j \in hits : k <= j].reason

\* _detect_error_type
detect_error_type(error_msg) ==
  LET error_lower == lower(error_msg)
      hits == {k \in 1..Len(ERROR_PATTERNS) :
                 \E p \in ERROR_PATTERNS[k].patterns : Contains(error_lower, p)}
  IN IF hits = {} THEN "unknown"
     ELSE ERROR_PATTERNS[CHOOSE k \in hits : \A j \in hits : k <= j].reason

\* _get_user_friendly_message.  The messages are, in this order:
\* "此影片有年齡限制，無法播放", "此影片因版權問題被阻擋",
\* "此影片在您的地區無法觀看", "此影片為私人或不公開", "此影片已不可用",
\* "無法取得影片資訊"
get_user_friendly_message(error_type) ==
  CASE error_type = "age_restricted" -> "age restricted, cannot be played"
    [] error_type = "copyright" -> "blocked for copyright reasons"
    [] error_type = "region_blocked" -> "cannot be watched in your region"
    [] error_type = "private" -> "private or unlisted"
    [] error_type = "unavailable" -> "no longer available"
    [] OTHER -> "cannot get the video information"

\* what a downloader call returns in place of metadata
NoInfo ==
  [kind |-> "none", error_type |-> "", display_message |-> "",
   title |-> << >>, duration |-> 0]

\* _create_error_response
create_error_response(error_msg) ==
  [kind |-> "error", error_type |-> detect_error_type(error_msg),
   display_message |-> get_user_friendly_message(detect_error_type(error_msg)),
   title |-> << >>, duration |-> 0]

\* int(float(duration)): truncation towards zero; ok is FALSE where Python
\* raises ValueError, TypeError or OverflowError
int_float(d) ==
  IF d.kind # "number" THEN [ok |-> FALSE, val |-> 0]
  ELSE [ok |-> TRUE,
        val |-> IF d.tenths >= 0 THEN d.tenths \div 10 ELSE -((-d.tenths) \div 10)]

\* (data.get("title") or "").lower()
lower_title(title) == IF title = NoTitle THEN << >> ELSE lower(title)

\* _is_valid_video
is_valid_video(data) ==
  LET title == lower_title(data.title) IN
    /\ \A p \in INVALID_TITLE_PATTERNS : ~Contains(title, p)
    /\ title # << >>
    /\ ~(Len(title) = 1 /\ title[1].phrase \in PlaceholderTitles)
    /\ data.duration # NoDuration =>
         (int_float(data.duration).ok /\ int_float(data.duration).val > 0)

\* _parse_video_data: the fields of the record that the filters are about
parse_video_data(data) ==
  IF ~is_valid_video(data) THEN NoInfo
  ELSE [kind |-> "info", error_type |-> "", display_message |-> "",
        title |-> data.title,
        duration |-> IF data.duration = NoDuration
                        \/ (data.duration.kind = "number" /\ data.duration.tenths = 0)
                        \/ ~int_float(data.duration).ok
                     THEN 0 ELSE int_float(data.duration).val]

NoData == [title |-> NoTitle, duration |-> NoDuration]

\* what the tool printed and how it exited: the error text of a failed run,
\* the JSON object of a successful one
ToolOutput(rc, text, data) == [returncode |-> rc, text |-> text, data |-> data]

NoOutput == ToolOutput(0, << >>, NoData)

ToolOutputs ==
  {ToolOutput(1, text, NoData) : text \in ErrorTexts}
  \cup {ToolOutput(0, << >>, data) : data \in VideoData}
  \cup {NoOutput}

ExtractResult(c, value, path) == [call |-> c, value |-> value, path |-> path]

\* extract_info on the tool's output: an error response for a non-zero
\* status, the parsed record otherwise
extract_info ==
  /\ extract_result.call = "init"
  /\ tool_output # NoOutput
  /\ extract_result' =
       ExtractResult("extract_info",
                     IF tool_output.returncode # 0
                     THEN create_error_response(tool_output.text)
                     ELSE parse_video_data(tool_output.data), "none")
  /\ UNCHANGED <<tool_output, entries>>
  /\ UNCHANGED notExtract

\* download(url) whose extract_info failed: it returns the error response
\* and no path
download_unextracted ==
  /\ extract_result.call = "init"
  /\ tool_output.returncode # 0
  /\ extract_result' =
       ExtractResult("download", create_error_response(tool_output.text), "none")
  /\ UNCHANGED <<tool_output, entries>>
  /\ UNCHANGED notExtract

\* extract_playlist reads one more line of the tool's output and keeps the
\* record parsed from it if there is one
extract_playlist_line(data) ==
  /\ tool_output = NoOutput
  /\ extract_result.call \in {"init", "extract_playlist_line"}
  /\ Len(entries) < MaxEntries
  /\ entries' = Append(entries, [data |-> data, info |-> parse_video_data(data)])
  /\ extract_result' = ExtractResult("extract_playlist_line", NoInfo, "none")
  /\ UNCHANGED tool_output
  /\ UNCHANGED notExtract

\* extract_playlist returns the records kept (None when there is none)
extract_playlist_returns ==
  /\ tool_output = NoOutput
  /\ extract_result.call \in {"init", "extract_playlist_line"}
  /\ extract_result' = ExtractResult("extract_playlist", NoInfo, "none")
  /\ UNCHANGED <<tool_output, entries>>
  /\ UNCHANGED notExtract

\* any output of the tool, no call made on it yet
InitExtract ==
  /\ tool_output \in ToolOutputs
  /\ extract_result = ExtractResult("init", NoInfo, "none")
  /\ entries = << >>

InitNoExtract ==
  /\ tool_output = NoOutput
  /\ extract_result = ExtractResult("init", NoInfo, "none")
  /\ entries = << >>

NextExtract ==
  \/ extract_info
  \/ download_unextracted
  \/ \E data \in VideoData : extract_playlist_line(data)
  \/ extract_playlist_returns

\* ------------------------------------------------------------------------
\* MusicPlayerCog: the voice connection and the reconnect loop
\* ------------------------------------------------------------------------
RECONNECT_MAX_ATTEMPTS == 3

ReconnectEvent(o, b) == [op |-> o, branch |-> b]

\* MusicPlayerCog.__init__, no voice connection
NewCog ==
  [reconnect_attempts |-> 0, loop_running |-> FALSE, manual_disconnect |-> FALSE,
   last_voice_channel |-> FALSE, player_message |-> FALSE, connected |-> FALSE,
   pending_update |-> FALSE, released |-> TRUE, failure_shown |-> FALSE,
   connects |-> 0]

\* _cleanup_resources: player.stop(), voice_client.disconnect() (the gateway
\* reports the bot's leaving a channel it was in), queue.clear(),
\* cache.clear(); the messages are forgotten, and the channel too after a
\* manual leave
CleanedUp(g) ==
  [g EXCEPT !.released = TRUE,
            !.connected = FALSE,
            !.pending_update = g.pending_update \/ g.connected,
            !.player_message = FALSE,
            !.last_voice_channel = IF g.manual_disconnect THEN FALSE
                                   ELSE g.last_voice_channel]

\* voice_reconnect_loop: the first test of an iteration
Exhausted(g) == g.reconnect_attempts >= RECONNECT_MAX_ATTEMPTS

\* start_player: the command that opens a session, refused while connected;
\* ok tells whether channel.connect() succeeds
start_player(ok) ==
  /\ ~cog.connected
  /\ cog' = IF ok
            THEN [cog EXCEPT !.player_message = TRUE, !.connected = TRUE,
                             !.last_voice_channel = TRUE,
                             !.manual_disconnect = FALSE, !.released = FALSE,
                             !.failure_shown = FALSE]
            ELSE [cog EXCEPT !.player_message = TRUE, !.failure_shown = FALSE]
  /\ reconnect_event' = ReconnectEvent("start_player", IF ok THEN "connected" ELSE "failed")
  /\ UNCHANGED notSession

\* _handle_leave: the leave button
handle_leave ==
  /\ cog.player_message
  /\ cog' = CleanedUp([cog EXCEPT !.manual_disconnect = TRUE])
  /\ reconnect_event' = ReconnectEvent("leave", "")
  /\ UNCHANGED notSession

\* the voice connection is lost without a leave
transport_lost ==
  /\ cog.connected
  /\ cog' = [cog EXCEPT !.connected = FALSE, !.pending_update = TRUE]
  /\ reconnect_event' = ReconnectEvent("transport_lost", "")
  /\ UNCHANGED notSession

\* on_voice_state_update for the bot's leaving its channel
on_voice_state_update ==
  /\ cog.pending_update
  /\ cog' = IF cog.manual_disconnect
            THEN [cog EXCEPT !.pending_update = FALSE]
            ELSE [cog EXCEPT !.pending_update = FALSE, !.reconnect_attempts = 0,
                             !.connects = 0, !.loop_running = TRUE]
  /\ reconnect_event' = ReconnectEvent("on_voice_state_update",
                          IF cog.manual_disconnect THEN "manual" ELSE "involuntary")
  /\ UNCHANGED notSession

\* one iteration of voice_reconnect_loop.  connect_ok: channel.connect()
\* succeeds; edit_ok: player_message.edit does not raise
voice_reconnect_loop(connect_ok, edit_ok) ==
  /\ cog.loop_running
  /\ IF Exhausted(cog)
     THEN IF cog.player_message /\ ~edit_ok
          THEN /\ cog' = [cog EXCEPT !.loop_running = FALSE]
               /\ reconnect_event' = ReconnectEvent("loop", "edit_raised")
          ELSE /\ cog' = CleanedUp([cog EXCEPT !.loop_running = FALSE,
                                               !.failure_shown = cog.player_message])
               /\ reconnect_event' = ReconnectEvent("loop", "gave_up")
     ELSE IF cog.connected
     THEN /\ cog' = [cog EXCEPT !.loop_running = FALSE]
          /\ reconnect_event' = ReconnectEvent("loop", "reconnected")
     ELSE /\ cog' = [cog EXCEPT
                       !.reconnect_attempts = @ + 1,
                       !.connects = IF cog.last_voice_channel THEN @ + 1 ELSE @,
                       !.connected = cog.last_voice_channel /\ connect_ok]
          /\ reconnect_event' = ReconnectEvent("loop", "attempt")
  /\ UNCHANGED notSession

InitCog ==
  /\ cog = NewCog
  /\ reconnect_event = ReconnectEvent("init", "")

NextSession ==
  \/ \E ok \in BOOLEAN : start_player(ok)
  \/ handle_leave
  \/ transport_lost
  \/ on_voice_state_update
  \/ \E connect_ok, edit_ok \in BOOLEAN : voice_reconnect_loop(connect_ok, edit_ok)

\* a player that was never used
InitPlayerIdle ==
  /\ last_manual_operation_time = 0
  /\ is_stopping = FALSE
  /\ voice = NoSong
  /\ pending_after = << >>
  /\ end_tasks = << >>
  /\ co = [c \in Coroutines |-> IdleCo]
  /\ player_event = PlayerEvent("init", "", NoSong, NoSong)

NextPlayer ==
  \/ \E kind \in {"next", "previous"} : manual_begin(kind, 0)
  \/ \E index \in -1..MaxQueue : manual_begin("jump", index)
  \/ manual_continue
  \/ \E c \in Coroutines, ok \in BOOLEAN : download_done(c, ok)
  \/ song_ends
  \/ on_playback_finished
  \/ handle_song_end
  \/ \E d \in 1..MaxStep : time_passes(d)

InitOuter ==
  /\ InitDownload
  /\ InitNoPut
  /\ InitState
  /\ InitPlayerIdle
  /\ InitCog
  /\ InitNoExtract

\* MusicQueue.__init__
InitQueue ==
  /\ queue = << >>
  /\ current_index = -1
  /\ loop = FALSE
  /\ lock = Free
  /\ ret = Called("init", 0, NoSong)

\* a coroutine that is not inside a mutation
NoCall == [op |-> "none", arg |-> << >>]

NoLocals == [pos |-> -1, first_add |-> FALSE, result |-> NoSong]

InitMutators ==
  /\ m_pc = [t \in Tasks |-> "idle"]
  /\ m_call = [t \in Tasks |-> NoCall]
  /\ m_local = [t \in Tasks |-> NoLocals]

\* a player in the middle of a playlist of distinct songs: the song at
\* the cursor was downloaded and is playing, no manual operation so far
InitPlaying ==
  /\ queue \in {[i \in 1..n |-> i] : n \in 1..Min(MaxQueue, NumIds)}
  /\ current_index \in 0..(Len(queue) - 1)
  /\ loop \in BOOLEAN
  /\ lock = Free
  /\ ret = Called("init", 0, NoSong)
  /\ InitMutators
  /\ cache_files = {queue[current_index + 1]}
  /\ explicit_files = {}
  /\ keep_ids = {}
  /\ preload_tasks = [s \in Ids |-> 0]
  /\ tasks = [h \in Handles |-> NoTask]
  /\ cache_event = Event("init", << >>, -1, 0)
  /\ InitDownload
  /\ InitNoPut
  /\ now = TickMs
  /\ state = StateStart(NewState, MaxDuration, queue[current_index + 1], now)
  /\ state_ret = StateCalled("start", TRUE)
  /\ played = 0
  /\ steady = TRUE
  /\ last_manual_operation_time = 0
  /\ is_stopping = FALSE
  /\ voice = queue[current_index + 1]
  /\ pending_after = << >>
  /\ end_tasks = << >>
  /\ co = [c \in Coroutines |-> IdleCo]
  /\ player_event = PlayerEvent("init", "", NoSong, NoSong)
  /\ InitCog
  /\ InitNoExtract

\* how the transport stands when a command arrives
Modes == {"playing", "paused", "stopped"}

\* any queue with its cursor on a song; that song is playing, paused, or the
\* player is stopped (as it is with an empty queue)
InitCommands ==
  /\ queue \in SeqsOf(Ids, 0, MaxQueue)
  /\ current_index \in IF queue = << >> THEN {-1} ELSE 0..(Len(queue) - 1)
  /\ loop \in BOOLEAN
  /\ lock = Free
  /\ ret = Called("init", 0, NoSong)
  /\ InitMutators
  /\ explicit_files = {}
  /\ keep_ids = {}
  /\ preload_tasks = [s \in Ids |-> 0]
  /\ tasks = [h \in Handles |-> NoTask]
  /\ cache_event = Event("init", << >>, -1, 0)
  /\ InitDownload
  /\ InitNoPut
  /\ now = TickMs
  /\ \E mode \in Modes :
       /\ queue = << >> => mode = "stopped"
       /\ voice = IF mode = "stopped" THEN NoSong ELSE queue[current_index + 1]
       /\ cache_files = IF mode = "stopped" THEN {} ELSE {queue[current_index + 1]}
       /\ state = CASE mode = "stopped" -> NewState
                     [] mode = "playing" ->
                          StateStart(NewState, MaxDuration, voice, now)
                     [] mode = "paused" ->
                          StatePause(StateStart(NewState, MaxDuration, voice, now), now)
  /\ state_ret = StateCalled("start", TRUE)
  /\ played = 0
  /\ steady = TRUE
  /\ last_manual_operation_time = 0
  /\ is_stopping = FALSE
  /\ pending_after = << >>
  /\ end_tasks = << >>
  /\ co = [c \in Coroutines |-> IdleCo]
  /\ player_event = PlayerEvent("init", "", NoSong, NoSong)
  /\ InitCog
  /\ InitNoExtract

Init ==
  /\ InitQueue
  /\ InitMutators
  /\ InitCache
  /\ InitOuter

NextQueue ==
  \/ \E song \in Ids : add(song)
  \/ \E songs \in SeqsOf(Ids, 0, MaxBatch) : add_many(songs)
  \/ \E song_id \in Ids : remove(song_id)
  \/ \E index \in 0..(MaxQueue + 1) : remove_by_index(index)
  \/ clear
  \/ next
  \/ previous
  \/ \E index \in -1..(MaxQueue + 1) : jump_to(index)
  \/ \E value \in BOOLEAN : set_loop(value)

SpecQueue == Init /\ [][NextQueue]_vars

\* ------------------------------------------------------------------------
\* MusicQueue mutations at statement granularity.  Each coroutine issues a
\* mutation, enters `async with self._lock`, changes the list, adjusts the
\* cursor and leaves the lock.  Coroutines may be interleaved at every
\* statement, which includes every schedule of the event loop.
\* ------------------------------------------------------------------------
CanAcquireAlways(l) == TRUE

\* asyncio.Lock.acquire proceeds only when the lock is not held
CanAcquire(l) == l = Free

InCriticalSection(t) == m_pc[t] \in {"content", "cursor", "release"}

\* songs that coroutine t still has to append (keeps the list within MaxQueue)
PendingGrowth(t) ==
  IF m_pc[t] \in {"acquire", "content"} /\ m_call[t].op \in {"add", "add_many"}
  THEN Len(m_call[t].arg) ELSE 0

MutationCalls ==
  {[op |-> "add", arg |-> <<s>>] : s \in Ids}
  \cup {[op |-> "add_many", arg |-> ss] : ss \in SeqsOf(Ids, 0, MaxBatch)}
  \cup {[op |-> "remove", arg |-> <<s>>] : s \in Ids}
  \cup {[op |-> "remove_by_index", arg |-> <<i>>] : i \in 0..(MaxQueue + 1)}
  \cup {[op |-> "clear", arg |-> << >>]}

\* a coroutine calls one of the mutations
Issue(t, c) ==
  /\ m_pc[t] = "idle"
  /\ c.op \in {"add", "add_many"} =>
       Len(queue) + Len(c.arg) + PendingGrowth(3 - t) <= MaxQueue
  /\ m_pc' = [m_pc EXCEPT ![t] = "acquire"]
  /\ m_call' = [m_call EXCEPT ![t] = c]
  /\ UNCHANGED <<queueVars, m_local, cacheVars, outerVars>>

\* async with self._lock: entry
Acquire(t) ==
  /\ m_pc[t] = "acquire"
  /\ CanAcquire(lock)
  /\ lock' = t
  /\ m_pc' = [m_pc EXCEPT ![t] = "content"]
  /\ UNCHANGED <<queue, current_index, loop, ret, m_call, m_local, cacheVars, outerVars>>

\* the statements of the body that change the list
Content(t) ==
  /\ m_pc[t] = "content"
  /\ LET c == m_call[t]
         pos == IF c.op = "remove" THEN FindFirst(queue, c.arg[1])
                ELSE IF c.op = "remove_by_index" THEN c.arg[1] - 1
                ELSE -1
         found == pos >= 0 /\ pos < Len(queue)
     IN
       /\ queue' = CASE c.op = "add" -> Append(queue, c.arg[1])
                     [] c.op = "add_many" -> queue \o c.arg
                     [] c.op \in {"remove", "remove_by_index"} ->
                          IF found THEN PopAt(queue, pos) ELSE queue
                     [] c.op = "clear" -> << >>
       /\ m_local' = [m_local EXCEPT ![t] =
                        [pos |-> IF found THEN pos ELSE -1,
                         first_add |-> Len(queue) = 0,
                         result |-> CASE c.op = "add" -> c.arg[1]
                                      [] c.op = "add_many" -> Len(c.arg)
                                      [] c.op \in {"remove", "remove_by_index"} ->
                                           IF found THEN queue[pos + 1] ELSE NoSong
                                      [] c.op = "clear" -> Len(queue)]]
       /\ m_pc' = [m_pc EXCEPT ![t] =
                     IF c.op \in {"remove", "remove_by_index"} /\ ~found
                     THEN "release" ELSE "cursor"]
  /\ UNCHANGED <<current_index, loop, lock, ret, m_call, cacheVars, outerVars>>

\* the statements of the body that adjust _current_index
Cursor(t) ==
  /\ m_pc[t] = "cursor"
  /\ LET c == m_call[t] IN
       current_index' =
         CASE c.op = "add" -> CursorAfterAdd(queue, current_index)
           [] c.op = "add_many" ->
                CursorAfterAddMany(queue, current_index, m_local[t].first_add)
           [] c.op \in {"remove", "remove_by_index"} ->
                CursorAfterRemove(queue, current_index, m_local[t].pos)
           [] c.op = "clear" -> -1
  /\ m_pc' = [m_pc EXCEPT ![t] = "release"]
  /\ UNCHANGED <<queue, loop, lock, ret, m_call, m_local, cacheVars, outerVars>>

\* async with self._lock: exit, and the return of m_local[t].result to the
\* caller, which ends the call
Release(t) ==
  /\ m_pc[t] = "release"
  /\ lock' = Free
  /\ m_pc' = [m_pc EXCEPT ![t] = "idle"]
  /\ m_call' = [m_call EXCEPT ![t] = NoCall]
  /\ m_local' = [m_local EXCEPT ![t] = NoLocals]
  /\ UNCHANGED <<queue, current_index, loop, ret, cacheVars, outerVars>>

\* any state of a MusicQueue between two calls
InitLock ==
  /\ queue \in SeqsOf(Ids, 0, MaxQueue)
  /\ current_index \in -1..(MaxQueue - 1)
  /\ (current_index = -1) <=> (Len(queue) = 0)
  /\ current_index < Len(queue)
  /\ loop = FALSE
  /\ lock = Free
  /\ ret = Called("init", 0, NoSong)
  /\ InitMutators
  /\ InitCache
  /\ InitOuter

NextLock ==
  \/ \E t \in Tasks, c \in MutationCalls : Issue(t, c)
  \/ \E t \in Tasks : Acquire(t)
  \/ \E t \in Tasks : Content(t)
  \/ \E t \in Tasks : Cursor(t)
  \/ \E t \in Tasks : Release(t)

SpecLock == InitLock /\ [][NextLock]_vars

SpecCache == Init /\ [][NextCache]_vars

SpecDownload == Init /\ [][NextDownload]_vars

\* a cache directory with any files in it, everything else as constructed
InitDirectory ==
  /\ InitQueue
  /\ InitMutators
  /\ InitCache
  /\ InitDownload
  /\ InitPut
  /\ InitState
  /\ InitPlayerIdle
  /\ InitCog
  /\ InitNoExtract

SpecPut == InitDirectory /\ [][NextPut]_vars

SpecPlayer == InitPlaying /\ [][NextPlayer]_vars

\* the event loop resumes a handler whose stop() is over; a download in
\* progress need never return
SpecPlayerLive == SpecPlayer /\ WF_vars(manual_continue)

SpecCommands == InitCommands /\ [][NextCommands]_vars

SpecSession == Init /\ [][NextSession]_vars

\* the downloader before a call on some output of the tool
InitOutput ==
  /\ InitQueue
  /\ InitMutators
  /\ InitCache
  /\ InitDownload
  /\ InitNoPut
  /\ InitState
  /\ InitPlayerIdle
  /\ InitCog
  /\ InitExtract

SpecExtract == InitOutput /\ [][NextExtract]_vars

SpecState == Init /\ [][NextState]_vars

\* ------------------------------------------------------------------------
\* Properties of MusicQueue
\* ------------------------------------------------------------------------
CursorConsistent ==
  /\ (current_index = -1) <=> (Len(queue) = 0)
  /\ Len(queue) > 0 => (0 <= current_index /\ current_index < Len(queue))

\* C1: after any sequence of MusicQueue operations current_index is -1
\* exactly when the queue is empty and otherwise lies in [0, size); adding
\* the first song to an empty queue leaves current_index at 0.
C1_CursorInRange ==
  /\ CursorConsistent
  /\ (ret.op = "add" /\ Len(queue) = 1) => current_index = 0

C1_Witness ==
  /\ ret.op = "add"
  /\ Len(queue) = 1
  /\ current_index = 0

\* C2: with loop disabled on a non-empty queue next() moves to the next
\* index and returns that song, except at the last index where it returns
\* nothing; previous() moves one index back, except at index 0 where it
\* returns nothing; a call returning nothing leaves the cursor in place.
C2_NoWrapWithoutLoop ==
  [][(~loop /\ Len(queue) > 0) =>
       /\ ret'.op = "next" =>
            IF current_index = Len(queue) - 1
            THEN ret'.val = NoSong /\ current_index' = current_index
            ELSE /\ current_index' = current_index + 1
                 /\ ret'.val = queue[current_index + 2]
       /\ ret'.op = "previous" =>
            IF current_index = 0
            THEN ret'.val = NoSong /\ current_index' = current_index
            ELSE /\ current_index' = current_index - 1
                 /\ ret'.val = queue[current_index]]_vars

C2_Witness ==
  /\ ~loop
  /\ queue = <<1, 2, 3>>
  /\ ret.op = "next"
  /\ ret.val = NoSong
  /\ current_index = 2

\* C3: with loop enabled and at least 2 songs next() and previous() always
\* return a song; next() at the last index moves the cursor to 0 and
\* previous() at index 0 moves it to the last index.
C3_LoopAlwaysMoves ==
  [][(loop /\ Len(queue) >= 2) =>
       /\ ret'.op = "next" =>
            /\ ret'.val # NoSong
            /\ current_index' = IF current_index = Len(queue) - 1
                                THEN 0 ELSE current_index + 1
            /\ ret'.val = queue[current_index' + 1]
       /\ ret'.op = "previous" =>
            /\ ret'.val # NoSong
            /\ current_index' = IF current_index = 0
                                THEN Len(queue) - 1 ELSE current_index - 1
            /\ ret'.val = queue[current_index' + 1]]_vars

C3_Witness ==
  /\ loop
  /\ Len(queue) >= 2
  /\ ret.op = "previous"
  /\ ret.val # NoSong
  /\ current_index = Len(queue) - 1

\* C4: next()/previous() wrap around only when loop is enabled and the
\* queue has at least 2 entries; in every other case (loop enabled with one
\* song included) next() at the last index and previous() at the first
\* index return nothing and leave the cursor unchanged.
C4_WrapOnlyWithLoopAndTwo ==
  [][(Len(queue) > 0 /\ ~(loop /\ Len(queue) >= 2)) =>
       /\ (ret'.op = "next" /\ current_index = Len(queue) - 1) =>
            (ret'.val = NoSong /\ current_index' = current_index)
       /\ (ret'.op = "previous" /\ current_index = 0) =>
            (ret'.val = NoSong /\ current_index' = current_index)]_vars

RemovedPosition(q, r) ==
  IF r.op = "remove_by_index"
  THEN (IF 1 <= r.arg /\ r.arg <= Len(q) THEN r.arg - 1 ELSE -1)
  ELSE IF \E k \in 1..Len(q) : q[k] = r.arg
       THEN (CHOOSE k \in 1..Len(q) :
               q[k] = r.arg /\ \A j \in 1..Len(q) : q[j] = r.arg => k <= j) - 1
       ELSE -1

\* C6: removing a song before the cursor decrements the cursor (the current
\* song stays the same song), removing one after the cursor leaves the
\* cursor unchanged, removing the song at the cursor keeps the position
\* unless it is now past the end, where it becomes size-1 (-1 when the queue
\* becomes empty); removing an absent id/index returns nothing and changes
\* nothing.
C6_RemoveAdjustsCursor ==
  [][ret'.op \in {"remove", "remove_by_index"} =>
       LET i == RemovedPosition(queue, ret') IN
         IF i = -1
         THEN ret'.val = NoSong /\ UNCHANGED <<queue, current_index, loop>>
         ELSE /\ ret'.val = queue[i + 1]
              /\ Len(queue') = Len(queue) - 1
              /\ \A k \in 1..Len(queue') :
                   queue'[k] = IF k <= i THEN queue[k] ELSE queue[k + 1]
              /\ i < current_index =>
                   /\ current_index' = current_index - 1
                   /\ queue'[current_index' + 1] = queue[current_index + 1]
              /\ i > current_index => current_index' = current_index
              /\ i = current_index =>
                   current_index' = IF Len(queue') = 0 THEN -1
                                    ELSE IF current_index >= Len(queue')
                                         THEN Len(queue') - 1
                                         ELSE current_index
              /\ loop' = loop]_vars

C6_Witness ==
  /\ ret.op = "remove_by_index"
  /\ ret.val # NoSong
  /\ ret.arg - 1 < current_index

\* C7: queue mutations are mutually exclusive: at most one coroutine is
\* inside a mutation, it is the one holding the lock, a coroutine that
\* issued a mutation meanwhile has not touched the queue, and whenever no
\* mutation is in progress the cursor is consistent with the content.
C7_MutationsExclusive ==
  /\ \A t1, t2 \in Tasks : (InCriticalSection(t1) /\ InCriticalSection(t2)) => t1 = t2
  /\ \A t \in Tasks : InCriticalSection(t) <=> lock = t
  /\ lock = Free => CursorConsistent

C7_Witness ==
  /\ \E t1, t2 \in Tasks :
       /\ m_pc[t1] = "cursor"
       /\ m_pc[t2] = "acquire"
  /\ ~CursorConsistent

\* ------------------------------------------------------------------------
\* Properties of CacheManager
\* ------------------------------------------------------------------------
\* the ids at indices max(0, c-behind) .. min(n-1, c+ahead) of q
WindowOf(q, c, behind, ahead) ==
  {q[k] : k \in {j \in 1..Len(q) : c - behind <= j - 1 /\ j - 1 <= c + ahead}}

\* the 10-song queue of the example: the song at index i has id i + 1
ExampleQueue == [i \in 1..10 |-> i]

C9_FilesWithinKeepSet == cache_files \subseteq (keep_ids \cup explicit_files)

\* the unfinished prefetch tasks for song s whose cancellation was not requested
Prefetching(s) == {h \in Handles : ~Done(tasks, h) /\ ~tasks[h].cancelled /\ tasks[h].song = s}

\* C10: under any interleaving of on_song_change, cancel_all_preloads /
\* clear_all and task completion or cancellation there is never more than
\* one unfinished prefetch task for the same song id (stated for the tasks
\* that have not been cancelled, which the claim's statement includes).
C10_OnePrefetchPerSong == \A s \in Ids : Cardinality(Prefetching(s)) <= 1

\* C11: once the cancellation of a prefetch has taken effect, the cache
\* directory holds neither a raw intermediate file nor an incomplete .opus
\* file for that song.
C11_CancelLeavesNoPartialFile ==
  \A s \in DlSongs :
    downloads[s].pc = "cancelled" =>
      (dl_files[s].raw = "none" /\ dl_files[s].opus # "partial")

\* C12: clear_all() cancels every unfinished prefetch, deletes every cache
\* file, reports the number of files deleted and leaves the prefetch-task map
\* and the keep set empty; cleanup() cancels every unfinished prefetch and
\* deletes no file.
C12_ClearAllAndCleanup ==
  [][/\ cache_event'.op = "clear_all" =>
          /\ \A h \in Handles : ~Done(tasks, h) => tasks'[h].cancelled
          /\ cache_files' = {}
          /\ cache_event'.count = Cardinality(cache_files)
          /\ \A s \in Ids : preload_tasks'[s] = 0
          /\ keep_ids' = {}
     /\ cache_event'.op = "cleanup" =>
          /\ \A h \in Handles : ~Done(tasks, h) => tasks'[h].cancelled
          /\ cache_files' = cache_files]_vars

C14_PositionInRange ==
  \A t \in Clock :
    /\ 0 <= current_position(state, t)
    /\ current_position(state, t) <= state.duration
    /\ ~state.is_playing => current_position(state, t) = 0

\* a song played past its end: the position is held at the duration
C14_Witness ==
  /\ state.is_playing
  /\ ~state.is_paused
  /\ state.duration > 0
  /\ now - state.start_time - state.total_paused > state.duration * 1000
  /\ current_position(state, now) = state.duration

\* C15: on every step between a start() and the next stop()/start() on
\* which the clock does not go back, current_position does not decrease,
\* and it stays the same on a step that begins or ends paused: while
\* paused, across pause() and across the matching resume().
C15_PositionMonotone ==
  [][(/\ state.is_playing
      /\ state'.is_playing
      /\ state_ret'.op \notin {"start", "stop", "reset"}
      /\ now' >= now) =>
       /\ current_position(state', now') >= current_position(state, now)
       /\ (state.is_paused \/ state'.is_paused) =>
            current_position(state', now') = current_position(state, now)]_vars

\* a resume() after a pause that lasted, at a position above 0
C15_Witness ==
  /\ state_ret.op = "resume"
  /\ state_ret.val
  /\ state.total_paused > 0
  /\ current_position(state, now) > 0

\* the scenario start(180), 45 s playing, pause(), 10 s, resume(), 5 s
ExamplePaused == StatePause(StateStart(NewState, 180, 1, 1000), 46000)

ExampleResumed == StateResume(ExamplePaused, 56000)

\* C16: after start(duration), whatever pauses and resumes follow,
\* current_position is min(duration, whole seconds played), the time since
\* start minus the time spent paused; the scenario gives 45, 45 and 50.
C16_PositionFromTimestamps ==
  /\ (state.is_playing /\ steady) =>
       current_position(state, now) = Min(state.duration, played \div 1000)
  /\ current_position(StateStart(NewState, 180, 1, 1000), 46000) = 45
  /\ current_position(ExamplePaused, 56000) = 45
  /\ current_position(ExampleResumed, 61000) = 50

\* a song resumed after a pause that has played on for a second or more,
\* still short of its end
C16_Witness ==
  /\ state.is_playing
  /\ ~state.is_paused
  /\ steady
  /\ state.total_paused > 0
  /\ state.duration * 1000 > played
  /\ played >= 1000
  /\ current_position(state, now) = played \div 1000

\* C17: pause() on a state that is not playing or already paused, and
\* resume() on a state that is not paused, return False and change no field
\* of the state.
C17_PauseResumeNoOp ==
  [][/\ (state_ret'.op = "pause" /\ ~(state.is_playing /\ ~state.is_paused)) =>
          (state' = state /\ state_ret'.val = FALSE)
     /\ (state_ret'.op = "resume" /\ ~state.is_paused) =>
          (state' = state /\ state_ret'.val = FALSE)]_vars

\* a second pause() issued later than the first: the anchor stays
C17_Witness ==
  /\ state_ret.op = "pause"
  /\ state_ret.val = FALSE
  /\ state.is_paused
  /\ state.pause_start < now

\* ------------------------------------------------------------------------
\* Properties of the player and the cog's playback handlers
\* ------------------------------------------------------------------------

\* the song directly after position i of q (wrapping in loop mode), if any
FollowerOf(q, i, l) ==
  IF i + 1 < Len(q) THEN q[i + 2]
  ELSE IF l /\ Len(q) > 1 THEN q[1]
  ELSE NoSong

\* C18: when the song at the cursor turns out to be unavailable it is removed
\* from the queue, it is not attempted again, and the song attempted next is
\* the one that directly followed it (none if nothing followed it).
C18_UnavailableSkipsOnlyItself ==
  [][(/\ player_event'.op = "drop"
      /\ current_index >= 0
      /\ current_index < Len(queue)
      /\ queue[current_index + 1] = player_event'.song) =>
       (/\ queue' = PopAt(queue, current_index)
        /\ player_event'.attempt # player_event'.song
        /\ player_event'.attempt = FollowerOf(queue, current_index, loop))]_vars

\* C19: the completion notification caused by stop() never advances the
\* cursor and never starts another song, whenever it is handled.
C19_StopNeverAdvances ==
  [][(/\ player_event'.op \in {"advance", "ignored"}
      /\ player_event'.cause = "stop") =>
       (/\ current_index' = current_index
        /\ queue' = queue
        /\ voice' = voice
        /\ co' = co)]_vars

\* C20: a completion handled less than the debounce window after the last
\* mark_manual_operation() neither advances the cursor nor starts a song.
C20_DebouncedCompletionIgnored ==
  [][(/\ Len(end_tasks') < Len(end_tasks)
      /\ last_manual_operation_time # 0
      /\ now - last_manual_operation_time < MANUAL_OPERATION_DEBOUNCE) =>
       (/\ current_index' = current_index
        /\ queue' = queue
        /\ voice' = voice
        /\ co' = co
        /\ pending_after' = pending_after)]_vars

\* the completion of the song cut short by a manual next was handled inside
\* the window and ignored: the cursor is one past where it started
C20_Witness ==
  /\ player_event.op = "ignored"
  /\ player_event.cause = "stop"
  /\ last_manual_operation_time # 0
  /\ now - last_manual_operation_time < MANUAL_OPERATION_DEBOUNCE
  /\ queue = <<1, 2, 3>>
  /\ current_index = 1
  /\ voice = 2

\* C21: at most one transition is in flight: no transition (a manual
\* next / previous / jump, or the handling of a completion) starts to read or
\* change the queue or the PlaybackState while an earlier one is suspended
\* in its download.
C21_OneTransitionInFlight ==
  [][player_event'.op \in {"stop", "advance", "ignored"} =>
       \A c \in Coroutines : co[c].pc # "downloading"]_vars

\* a natural completion is taken off the loop's tasks by this step
NaturalEndHandled ==
  /\ Len(end_tasks') < Len(end_tasks)
  /\ Head(end_tasks) = "natural"

\* position of the song after the cursor (first song again in loop mode),
\* -1 when there is none
FurtherIndex ==
  IF current_index + 1 < Len(queue) THEN current_index + 1
  ELSE IF loop /\ Len(queue) > 0 THEN 0
  ELSE -1

\* what handling a natural completion does: with a further song the cursor
\* moves to it and it is played (at once from the cache, after its download
\* otherwise); without one the cursor stays and the player is stopped
AdvancesByOne ==
  IF FurtherIndex >= 0
  THEN /\ current_index' = FurtherIndex
       /\ queue' = queue
       /\ IF queue[FurtherIndex + 1] \in cache_files
          THEN /\ voice' = queue[FurtherIndex + 1]
               /\ state'.is_playing
               /\ state'.current_song_id = queue[FurtherIndex + 1]
          ELSE co'["song_end"] = [pc |-> "downloading", kind |-> "none",
                                  song |-> queue[FurtherIndex + 1]]
  ELSE /\ current_index' = current_index
       /\ queue' = queue
       /\ voice' = voice
       /\ ~state'.is_playing
       /\ co' = co

\* C22 as stated: every natural completion with a further song advances the
\* cursor by one and plays that song, and without a further song leaves the
\* player stopped at the last song.
C22_NaturalEndAlwaysAdvances ==
  [][NaturalEndHandled => AdvancesByOne]_vars

\* C22: a natural completion handled outside the debounce window of a manual
\* operation advances the cursor by one and plays the further song (at once
\* when cached, otherwise once its download returns a file); without a
\* further song the cursor stays and the player is stopped.
C22_NaturalEndAdvances ==
  [][/\ (/\ NaturalEndHandled
          /\ ~(/\ last_manual_operation_time # 0
                /\ now - last_manual_operation_time < MANUAL_OPERATION_DEBOUNCE)) =>
          AdvancesByOne
     /\ player_event'.op = "play" =>
          (/\ voice' = player_event'.song
           /\ state'.is_playing
           /\ state'.current_song_id = player_event'.song)]_vars

\* the song after the one that ended was in the cache and plays
C22_Witness ==
  /\ player_event.op = "advance"
  /\ player_event.cause = "natural"
  /\ player_event.attempt # NoSong
  /\ voice = player_event.attempt
  /\ current_index >= 0
  /\ current_index < Len(queue)
  /\ queue[current_index + 1] = voice
  /\ state.is_playing

\* ------------------------------------------------------------------------
\* Properties of the reconnect loop
\* ------------------------------------------------------------------------

\* C23: after an involuntary disconnect the loop makes at most
\* RECONNECT_MAX_ATTEMPTS connection attempts; an iteration that finds the
\* attempts used up and the transport not connected stops the loop, releases
\* the resources and shows the failure; an iteration that finds the transport
\* connected stops the loop and releases nothing.
C23_ReconnectBounded ==
  [][(reconnect_event'.op = "loop" /\ cog' # cog) =>
       /\ cog'.connects <= RECONNECT_MAX_ATTEMPTS
       /\ (cog.reconnect_attempts >= RECONNECT_MAX_ATTEMPTS /\ ~cog.connected) =>
            (~cog'.loop_running /\ cog'.released /\ cog'.failure_shown)
       /\ cog.connected =>
            (~cog'.loop_running /\ cog'.released = cog.released
             /\ cog'.connected)]_vars

\* ------------------------------------------------------------------------
\* Properties of YTDLPDownloader.download
\* ------------------------------------------------------------------------

\* C24: a download call never stays in one await beyond its timeout: 30 s
\* for the extraction, 180 s for the media download and the transcoding,
\* however long the tool stalls.
C24_CallsReturnInTime ==
  \A s \in DlSongs :
    /\ downloads[s].pc = "extract" => waited[s] <= ExtractTimeout
    /\ downloads[s].pc \in {"ytdlp", "convert"} => waited[s] <= DownloadTimeout

\* C25: once download has returned, no raw intermediate file of the song is
\* left, and a final .opus file exists only if the call succeeded.
C25_NoRawFileAfterReturn ==
  \A s \in DlSongs :
    downloads[s].pc \in {"done", "failed"} =>
      /\ dl_files[s].raw = "none"
      /\ (downloads[s].pc = "failed" /\ "ffmpeg" \in downloads[s].started) =>
           dl_files[s].opus = "none"

\* a call of download(url, id) that has not yet returned and whose <id>.opus
\* exists
HitCall(s) ==
  /\ downloads[s].with_id
  /\ downloads[s].pc \in {"new", "extract"}
  /\ dl_files[s].opus # "none"

\* C26 as stated: download(url, id) with <id>.opus present starts no
\* external tool at all.
C26_CacheHitStartsNothing ==
  \A s \in DlSongs : HitCall(s) => downloads[s].started = {}

\* C26: download(url, id) with <id>.opus present returns that file, starts
\* no media download and no transcoding (its one external process is the
\* metadata extraction) and leaves the cache directory unchanged.
C26_CacheHitShortCircuits ==
  [][\A s \in DlSongs :
       HitCall(s) =>
         /\ downloads'[s].pc \in {"new", "extract", "done", "cancelled"}
         /\ downloads'[s].started \subseteq {"extract"}
         /\ dl_files'[s] = dl_files[s]
         /\ subprocesses'[s] = subprocesses[s]]_vars

\* download(url, id) has returned the file that was there; only the
\* extraction ran
C26_Witness ==
  \E s \in DlSongs :
    /\ downloads[s].with_id
    /\ downloads[s].hit
    /\ downloads[s].pc = "done"
    /\ downloads[s].started = {"extract"}
    /\ dl_files[s].opus = "complete"
    /\ dl_files[s].raw = "none"

\* ------------------------------------------------------------------------
\* Properties of the downloader's handling of the tool's output
\* ------------------------------------------------------------------------

\* the phrases that occur in the error text, in whatever case
PhrasesOf(text) == {text[i].phrase : i \in DOMAIN text}

\* reason is the first reason of the table with a pattern among the
\* phrases, "unknown" when there is none
TableLookup(phrases, reason) ==
  IF reason = "unknown" THEN phrases \cap AllPatterns = {}
  ELSE \E k \in 1..Len(ERROR_PATTERNS) :
         /\ ERROR_PATTERNS[k].reason = reason
         /\ ERROR_PATTERNS[k].patterns \cap phrases # {}
         /\ \A j \in 1..(k - 1) : ERROR_PATTERNS[j].patterns \cap phrases = {}

\* an error response was returned for the failed run of the tool
Classified ==
  /\ extract_result.call \in {"extract_info", "download"}
  /\ tool_output.returncode # 0

\* the patterns of the reasons that come before "private" in the table
BeforePrivate ==
  ERROR_PATTERNS[1].patterns \cup ERROR_PATTERNS[2].patterns
  \cup ERROR_PATTERNS[3].patterns

PrivateResponse ==
  /\ extract_result.value.error_type = "private"
  /\ extract_result.value.display_message = "private or unlisted"
  /\ extract_result.path = "none"

\* C27 as stated: the reason is found by table lookup, and every error text
\* that contains "private video" is classified private.
C27_ClassificationAsStated ==
  Classified =>
    /\ TableLookup(PhrasesOf(tool_output.text), extract_result.value.error_type)
    /\ "private video" \in PhrasesOf(tool_output.text) => PrivateResponse

\* C27: the reason is the first reason in table order one of whose patterns
\* occurs in the error text, whatever its case, and unknown exactly when no
\* pattern occurs; an error text that contains "private video" and no
\* pattern of an earlier reason is classified private, with the message for
\* private videos and no local file.
C27_Classification ==
  Classified =>
    /\ TableLookup(PhrasesOf(tool_output.text), extract_result.value.error_type)
    /\ extract_result.value.kind = "error"
    /\ extract_result.path = "none"
    /\ ("private video" \in PhrasesOf(tool_output.text)
        /\ PhrasesOf(tool_output.text) \cap BeforePrivate = {}) => PrivateResponse

\* download failed on "PRIVATE VIDEO ... video unavailable": private wins
\* over the later reason, in spite of the upper case
C27_Witness ==
  /\ extract_result.call = "download"
  /\ tool_output.text = << [phrase |-> "private video", upper |-> TRUE],
                           [phrase |-> "video unavailable", upper |-> FALSE] >>
  /\ PrivateResponse

\* the record returned for data has a real title and a positive duration,
\* taken from a duration that was present, a number and positive
PassedFilters(data, info) ==
  /\ info.title # << >>
  /\ info.title # NoTitle
  /\ ~(Len(info.title) = 1 /\ info.title[1].phrase \in PlaceholderTitles)
  /\ info.duration > 0
  /\ data.duration.kind = "number"
  /\ data.duration.tenths > 0

\* C28: every metadata record returned by extract_info or kept by
\* extract_playlist has a non-empty title that is no placeholder and a
\* positive integer duration; a record whose duration is zero, negative,
\* missing or not a number is never returned.
C28_ReturnedMetadataValid ==
  /\ (extract_result.call = "extract_info" /\ extract_result.value.kind = "info") =>
       PassedFilters(tool_output.data, extract_result.value)
  /\ \A i \in DOMAIN entries :
       entries[i].info.kind = "info" => PassedFilters(entries[i].data, entries[i].info)

\* ------------------------------------------------------------------------
\* Properties of the completion callback and of playing from the cache
\* ------------------------------------------------------------------------

\* C29: the completion callback run by the audio thread touches neither the
\* queue, the PlaybackState nor the player's flags: whatever their values, all
\* it does is post the follow-up task for the completion it was called for.
C29_CallbackOnlyPosts ==
  [][player_event'.op = "on_playback_finished" =>
       (/\ end_tasks' = Append(end_tasks, Head(pending_after))
        /\ UNCHANGED <<queue, current_index, loop, state, is_stopping,
                       last_manual_operation_time>>)]_vars

\* the song the manual handler suspended in stop() will attempt
ManualTarget ==
  LET kind == co["manual"].kind IN
    CASE kind = "next" -> NextResult(queue, current_index, loop).val
      [] kind = "previous" -> PreviousResult(queue, current_index, loop).val
      [] OTHER -> co["manual"].song

\* this step attempts a song whose cache file exists
AttemptsCached ==
  /\ player_event'.op \in {"manual", "advance", "drop"}
  /\ player_event'.attempt # NoSong
  /\ player_event'.attempt \in cache_files

\* C30: a song whose cache file exists is played without waiting on any
\* download: the step that attempts it leaves the voice client playing it and
\* suspends no coroutine in a download, whatever other download is under way;
\* and a handler about to attempt a cached song gets to play it even if the
\* other download never returns.
C30_CachedSongPlaysUnstalled ==
  /\ [][AttemptsCached =>
          (/\ voice' = player_event'.attempt
           /\ state'.is_playing
           /\ state'.current_song_id = player_event'.attempt
           /\ \A c \in Coroutines :
                co'[c].pc = "downloading" => co'[c] = co[c])]_vars
  /\ \A s \in Ids :
       (/\ co["manual"].pc = "stopping"
        /\ co["song_end"].pc = "downloading"
        /\ ManualTarget = s
        /\ s \in cache_files)
         ~> (voice = s \/ co["song_end"].pc # "downloading")

\* a manual operation played a cached song while the song-end task was
\* still suspended in the download of another song
C30_Witness ==
  /\ player_event.op = "manual"
  /\ player_event.attempt # NoSong
  /\ voice = player_event.attempt
  /\ state.is_playing
  /\ co["song_end"].pc = "downloading"
  /\ co["song_end"].song # voice
  /\ co["manual"].pc = "idle"

\* ------------------------------------------------------------------------
\* Further properties of the playback handlers
\* ------------------------------------------------------------------------

\* C31: handling a natural completion that the debounce discards changes
\* nothing: the PlaybackState (is_playing, is_paused, anchors, current song
\* id) and the queue with its cursor are as before, so the state of the song
\* the manual operation started is not reset.
C31_DiscardedCompletionNoEffect ==
  [][(/\ player_event'.op = "ignored"
      /\ player_event'.cause = "natural") =>
       (/\ state' = state
        /\ queue' = queue
        /\ current_index' = current_index)]_vars

\* this step starts a song on the voice client
StartsSong ==
  /\ player_event'.op \in {"manual", "advance", "drop", "play"}
  /\ voice' # NoSong
  /\ (voice' # voice \/ pending_after' # pending_after)

\* C34: whenever a song is started on the transport it is the song at the
\* queue cursor at that moment, under any interleaving of manual commands and
\* completion callbacks, commands issued during a download included.
C34_StartedSongIsCurrent ==
  [][StartsSong => voice' = current_song(queue', current_index')]_vars

\* C37: in every queue state and loop setting has_next() is true exactly
\* when next() would return a song, and has_previous() exactly when
\* previous() would.
C37_HasNextAgreesWithNext ==
  /\ has_next(queue, current_index, loop)
       <=> NextResult(queue, current_index, loop).val # NoSong
  /\ has_previous(queue, current_index, loop)
       <=> PreviousResult(queue, current_index, loop).val # NoSong

\* C39: the drop-and-advance after a failed play makes progress towards its
\* end: each failure removes a song from the queue, the song that failed is
\* gone and is not the one attempted next, and what is attempted next is a
\* song still in the queue or nothing.
C39_EachFailureRemovesASong ==
  [][player_event'.op = "drop" =>
       (/\ Len(queue') = Len(queue) - 1
        /\ \A i \in DOMAIN queue' : queue'[i] # player_event'.song
        /\ player_event'.attempt # player_event'.song
        /\ player_event'.attempt # NoSong =>
             \E i \in DOMAIN queue' : queue'[i] = player_event'.attempt)]_vars

C36_CacheHitIsCompleteFile ==
  \A s \in DlSongs :
    opus_exists(dl_files[s]) =>
      (dl_files[s].opus = "complete" /\ subprocesses[s] # "ffmpeg")

\* ------------------------------------------------------------------------
\* Properties of MusicPlayer.jump_to / remove_song and of the cog's add and
\* remove commands
\* ------------------------------------------------------------------------

\* C32: MusicPlayer.jump_to(index) takes a 1-based number: for
\* 1 <= index <= size the cursor moves to position index - 1 and that song is
\* played (when its file is in the cache or can be downloaded); for any other
\* index it returns nothing and changes nothing.
C32_PlayerJumpToOneBased ==
  [][ret'.op = "player_jump_to" =>
       IF 1 <= ret'.arg /\ ret'.arg <= Len(queue)
       THEN /\ current_index' = ret'.arg - 1
            /\ queue' = queue
            /\ ret'.val # NoSong =>
                 (ret'.val = queue[ret'.arg] /\ voice' = queue[ret'.arg])
       ELSE /\ ret'.val = NoSong
            /\ UNCHANGED <<queue, current_index, voice, state>>]_vars

\* C33: MusicPlayer.remove_song(index) removes the song at the 1-based
\* number index from the queue and returns it, for 1 <= index <= size.
C33_PlayerRemoveSongByNumber ==
  [][(/\ ret'.op = "player_remove_song"
      /\ 1 <= ret'.arg
      /\ ret'.arg <= Len(queue)) =>
       (/\ queue' = PopAt(queue, ret'.arg - 1)
        /\ ret'.val = queue[ret'.arg])]_vars

\* C38: adding a song or a playlist while a song is playing or paused only
\* appends to the queue: the cursor does not move and the song on the
\* transport is neither replaced nor restarted.
C38_AddOnlyAppends ==
  [][(/\ ret'.op \in {"add_single", "add_playlist"}
      /\ voice # NoSong
      /\ state.is_playing) =>
       (/\ Len(queue') >= Len(queue)
        /\ SubSeq(queue', 1, Len(queue)) = queue
        /\ current_index' = current_index
        /\ voice' = voice
        /\ state' = state
        /\ pending_after' = pending_after
        /\ co' = co)]_vars

\* C40: the remove command removes exactly the entry at the position named,
\* also among entries with the same id: the queue afterwards is the old one
\* without its p-th entry, and the cursor designates the same entry as
\* before unless that entry was the one removed.
C40_RemoveCommandByPosition ==
  [][(/\ ret'.op = "cog_remove_song"
      /\ 1 <= ret'.arg
      /\ ret'.arg <= Len(queue)) =>
       (/\ queue' = PopAt(queue, ret'.arg - 1)
        /\ ret'.val = queue[ret'.arg]
        /\ current_index < ret'.arg - 1 => current_index' = current_index
        /\ current_index > ret'.arg - 1 => current_index' = current_index - 1)]_vars

====
